---- MODULE Spec2Model ----
(***************************************************************************)
(* A model of gomultistripe: the process-wide handler registry             *)
(* (handler.go), the self-registration of the version packages (their      *)
(* init functions) and the webhook normalizers (HandleWebhook of the       *)
(* synchronous handlers and of the channel-based CallbackHandlerV74).      *)
(***************************************************************************)
EXTENDS Integers, Sequences, FiniteSets, TLC

VARIABLES
    registry,     \* handler.go: var registry = make(map[string]Handler)
    regLog,       \* history: the handlers passed to RegisterHandler, in call order
    linked,       \* the version packages linked into the binary
    initDone,     \* the version packages whose init function has returned
    phase,        \* "init" while init functions run, then "main", "dead" after a panic
    dynRegs,      \* how many RegisterHandler calls caller code has made
    got,          \* the last GetHandler call of caller code: <<version, result>>
    gor,          \* registry, concurrent view: what each goroutine is executing
    initRun,      \* registry, concurrent view: the packages whose init is executing
    outsideInit,  \* history: some RegisterHandler call was made outside an init function
    fault,        \* "none", "race" after a data race on the map, "fatal" once the runtime stopped the program
    events,       \* CallbackHandlerV74.events: the buffered channel, oldest event first
    called,       \* the inbound requests that have made their HandleWebhook call
    last,         \* the most recent HandleWebhook call: handler, payload, outcome, channel before and after
    prod,         \* channel handler, concurrent view: where each producer goroutine is in HandleWebhook
    started,      \* how many HandleWebhook calls have got as far as their send
    order,        \* history: the tags of the events sent on the channel, in the order they went in
    recvd,        \* history: the tags of the events the consumer has received, in the order received
    ch,           \* CallbackHandlerV74.events as a value: which channel it is, and whether it is closed
    evRet,        \* the channel the last Events() call returned (0 before the first call)
    qret,         \* the most recent HandleWebhook call a producer has returned from
    opLast,       \* the most recent call of an adapter operation: what was asked, what the vendor replied, what came back
    upd           \* the run of the version updater: its inputs, where it is, the commands it has run

regVars == <<registry, regLog, linked, initDone, phase, dynRegs, got>>
concVars == <<gor, initRun, outsideInit, fault>>
queueVars == <<prod, started, order, recvd, ch, evRet, qret>>
hookVars == <<events, called, last, prod, started, order, recvd, ch, evRet, qret, opLast, upd>>
vars == <<registry, regLog, linked, initDone, phase, dynRegs, got, gor, initRun, outsideInit, fault,
          events, called, last, prod, started, order, recvd, ch, evRet, qret, opLast, upd>>

-----------------------------------------------------------------------------
(* Values *)

\* Go's nil: the zero value of a pointer, a map or an error; "" where a string is meant.
Nil == "nil"

\* The nil Handler (the zero value of the interface): no instance, no version.
NilHandler == <<"nil", 0>>

\* The version packages of src/ that register a handler in an init function.
PkgVersions == {"v74", "v76", "v80"}

\* The versions caller code may ask for or register under (go.mod requires v82 too).
Versions == PkgVersions \cup {"v82"}

\* How many handler instances caller code creates per version.
MaxInstances == 1

\* How many RegisterHandler calls caller code makes.
MaxRegs == 2

\* A variant of a version package copied from its predecessor whose Version()
\* still gives the predecessor's version string.
NewHandlerStale(p) == IF p = "v80" THEN <<"v76", 0>> ELSE <<p, 0>>

\* NewHandler() / &HandlerV80{}: the instance a package's init function creates.
NewHandler(p) == <<p, 0>>

\* A handler instance: the version its Version() method returns, and which
\* instance of that type it is (instance 0 is the one made by the init, the
\* others are made by caller code).
CallerHandlers == Versions \X (1 .. MaxInstances)
Handlers == {NewHandler(p) : p \in PkgVersions} \cup CallerHandlers

\* (h *HandlerVnn) Version(): a constant of the handler's type.
Version(h) == h[1]

-----------------------------------------------------------------------------
(* handler.go: the registry *)

\* Variants of the map write: one that keeps an entry already present, and
\* one that rebuilds the map around the new entry.
RegistryPutIfAbsent(reg, h) ==
    IF reg[Version(h)] = NilHandler THEN [reg EXCEPT ![Version(h)] = h] ELSE reg
RegistryPutFresh(reg, h) ==
    [v \in DOMAIN reg |-> IF v = Version(h) THEN h ELSE NilHandler]

\* registry[h.Version()] = h
RegistryPut(reg, h) == [reg EXCEPT ![Version(h)] = h]

\* A variant of the lookup that falls back to the oldest supported version.
GetHandlerOrDefault(version) ==
    IF registry[version] = NilHandler THEN registry["v74"] ELSE registry[version]

\* func GetHandler(version string) Handler { return registry[version] }
\* A Go map read of an absent key gives the zero value, a nil Handler.
GetHandler(version) == registry[version]

\* A variant in which init functions run side by side.
InitMayStartAnyTime(running) == TRUE

\* Init functions of one program run one after the other, in one goroutine.
InitMayStart(running) == running = {}

\* main starts when every init function has returned.
MainMayStart(done, running) == done = linked /\ running = {}

\* func init() { gomultistripe.RegisterHandler(NewHandler()) }, one call.
PkgInit(p) ==
    /\ phase = "init"
    /\ p \in linked \ initDone
    /\ InitMayStart(initRun)
    /\ registry' = RegistryPut(registry, NewHandler(p))
    /\ regLog' = Append(regLog, NewHandler(p))
    /\ initDone' = initDone \cup {p}
    /\ UNCHANGED <<linked, phase, dynRegs, got>>
    /\ UNCHANGED <<concVars, hookVars>>

\* The runtime calls main.main after the init functions.
StartMain ==
    /\ phase = "init"
    /\ MainMayStart(initDone, initRun)
    /\ phase' = "main"
    /\ UNCHANGED <<registry, regLog, linked, initDone, dynRegs, got>>
    /\ UNCHANGED <<concVars, hookVars>>

\* func RegisterHandler(h Handler), called by caller code.
RegisterHandler(h) ==
    /\ phase = "main"
    /\ dynRegs < MaxRegs
    /\ dynRegs' = dynRegs + 1
    /\ registry' = RegistryPut(registry, h)
    /\ regLog' = Append(regLog, h)
    /\ outsideInit' = TRUE
    /\ UNCHANGED <<linked, initDone, phase, got>>
    /\ UNCHANGED <<gor, initRun, fault, hookVars>>

\* RegisterHandler(nil): h.Version() on a nil interface panics, before the map is written.
RegisterNil ==
    /\ phase = "main"
    /\ phase' = "dead"
    /\ UNCHANGED <<registry, regLog, linked, initDone, dynRegs, got>>
    /\ UNCHANGED <<concVars, hookVars>>

\* GetHandler(version), called by caller code.
CallGetHandler(version) ==
    /\ phase = "main"
    /\ got' = <<version, GetHandler(version)>>
    /\ UNCHANGED <<registry, regLog, linked, initDone, phase, dynRegs>>
    /\ UNCHANGED <<concVars, hookVars>>

-----------------------------------------------------------------------------
(* The registry under goroutines: the map has no lock, so a call is not one  *)
(* step; it begins, and later the map access completes.                      *)

Goroutines == {"g1", "g2"}

Idle == [op |-> "idle", h |-> NilHandler, version |-> Nil]

\* The calls that are writing the map, and those that are reading it.
Writers == initRun \cup {g \in Goroutines : gor[g].op = "reg"}
Readers == {g \in Goroutines : gor[g].op = "get"}

\* What the writers in progress are storing.
PendingWrites ==
    {NewHandler(p) : p \in initRun} \cup {gor[g].h : g \in {w \in Goroutines : gor[w].op = "reg"}}

\* A data race on the map: two writes, or a write and a read, at the same time.
Overlap(writers, readers) ==
    \/ Cardinality(writers) > 1
    \/ writers # {} /\ readers # {}

\* What a map access that completes can do to `fault`: without a race nothing;
\* after one, the runtime may or may not stop the program with a fatal error
\* ("concurrent map writes", "concurrent map read and map write").
FaultAfter(f) == IF f = "none" THEN {"none"} ELSE {"race", "fatal"}

\* An init function begins its RegisterHandler call.
InitBegin(p) ==
    /\ phase = "init"
    /\ fault # "fatal"
    /\ p \in (linked \ initDone) \ initRun
    /\ InitMayStart(initRun)
    /\ initRun' = initRun \cup {p}
    /\ fault' = IF Overlap(initRun', Readers) THEN "race" ELSE fault
    /\ UNCHANGED <<gor, outsideInit>>
    /\ UNCHANGED <<regVars, hookVars>>

\* The map write of an init function completes and the init returns.
InitEnd(p) ==
    /\ p \in initRun
    /\ fault # "fatal"
    /\ initRun' = initRun \ {p}
    /\ initDone' = initDone \cup {p}
    /\ \E f \in FaultAfter(fault), kept \in (IF fault = "none" THEN {TRUE} ELSE BOOLEAN) :
          /\ fault' = f
          /\ registry' = IF kept THEN RegistryPut(registry, NewHandler(p)) ELSE registry
    /\ UNCHANGED <<regLog, linked, phase, dynRegs, got, gor, outsideInit, hookVars>>

\* main starts; from here on caller code runs, in several goroutines.
StartMainC ==
    /\ phase = "init"
    /\ fault # "fatal"
    /\ MainMayStart(initDone, initRun)
    /\ phase' = "main"
    /\ UNCHANGED <<registry, regLog, linked, initDone, dynRegs, got>>
    /\ UNCHANGED <<concVars, hookVars>>

\* A goroutine of caller code calls RegisterHandler(h).
GoBeginRegister(g, h) ==
    /\ phase = "main"
    /\ fault # "fatal"
    /\ gor[g] = Idle
    /\ dynRegs + Cardinality(Writers) < MaxRegs
    /\ gor' = [gor EXCEPT ![g] = [op |-> "reg", h |-> h, version |-> Nil]]
    /\ outsideInit' = TRUE
    /\ fault' = IF Overlap(Writers \cup {g}, Readers) THEN "race" ELSE fault
    /\ UNCHANGED initRun
    /\ UNCHANGED <<regVars, hookVars>>

\* Its map write completes.
GoEndRegister(g) ==
    /\ gor[g].op = "reg"
    /\ fault # "fatal"
    /\ \E f \in FaultAfter(fault), kept \in (IF fault = "none" THEN {TRUE} ELSE BOOLEAN) :
          /\ fault' = f
          /\ registry' = IF kept THEN RegistryPut(registry, gor[g].h) ELSE registry
    /\ dynRegs' = dynRegs + 1
    /\ gor' = [gor EXCEPT ![g] = Idle]
    /\ UNCHANGED <<regLog, linked, initDone, phase, got, initRun, outsideInit, hookVars>>

\* A goroutine of caller code calls GetHandler(version).
GoBeginGet(g, version) ==
    /\ phase = "main"
    /\ fault # "fatal"
    /\ gor[g] = Idle
    /\ gor' = [gor EXCEPT ![g] = [op |-> "get", h |-> NilHandler, version |-> version]]
    /\ fault' = IF Overlap(Writers, Readers \cup {g}) THEN "race" ELSE fault
    /\ UNCHANGED <<initRun, outsideInit>>
    /\ UNCHANGED <<regVars, hookVars>>

\* Its map read completes: the entry, or after a race what a torn read can give.
GoEndGet(g) ==
    /\ gor[g].op = "get"
    /\ fault # "fatal"
    /\ \E f \in FaultAfter(fault) :
          /\ fault' = f
          /\ \E r \in (IF fault = "none"
                       THEN {GetHandler(gor[g].version)}
                       ELSE {GetHandler(gor[g].version), NilHandler} \cup PendingWrites) :
                got' = <<gor[g].version, r>>
    /\ gor' = [gor EXCEPT ![g] = Idle]
    /\ UNCHANGED <<registry, regLog, linked, initDone, phase, dynRegs, initRun, outsideInit, hookVars>>

-----------------------------------------------------------------------------
(* Webhook payloads: what webhook.ConstructEvent and json.Unmarshal make of   *)
(* the raw bytes and the signature header.                                   *)

\* A pointer: nil, or the address of one value.
NilPtr == <<>>
Ptr(x) == <<x>>

\* A Go map[string]string: the nil map, or a made map with its key/value pairs.
NilMap == [nil |-> TRUE, kv |-> [k \in {} |-> ""]]
MakeMap == [nil |-> FALSE, kv |-> [k \in {} |-> ""]]
MapOf(f) == [nil |-> FALSE, kv |-> f]

\* m[k]: the value, or "" for a key that is absent (also in the nil map).
MapGet(m, k) == IF k \in DOMAIN m.kv THEN m.kv[k] ELSE ""

\* m[k] = v on a made map.
MapSet(m, k, v) ==
    [nil |-> FALSE, kv |-> [x \in DOMAIN m.kv \cup {k} |-> IF x = k THEN v ELSE m.kv[x]]]

\* The event kinds, by the case arm of HandleWebhook that takes them.
SetupIntentKinds == {"setup_intent.succeeded"}
PaymentIntentKinds ==
    {"payment_intent.canceled", "payment_intent.payment_failed",
     "payment_intent.succeeded", "payment_intent.amount_capturable_updated"}
SubscriptionKinds ==
    {"customer.subscription.created", "customer.subscription.updated",
     "customer.subscription.deleted", "customer.subscription.trial_will_end",
     "customer.subscription.paused", "customer.subscription.resumed"}
InvoiceKinds ==
    {"invoice.payment_succeeded", "invoice.payment_failed",
     "invoice.created", "invoice.upcoming"}
RefundKinds == {"refund.created", "refund.updated", "refund.failed", "charge.refunded"}

\* Kinds the vendor sends that no case arm names.
OtherKinds == {"customer.created"}

\* The kinds the synchronous handlers know, and those the channel handler knows.
SyncKinds ==
    SetupIntentKinds \cup PaymentIntentKinds \cup SubscriptionKinds \cup InvoiceKinds \cup RefundKinds
QueueKinds ==
    SetupIntentKinds \cup PaymentIntentKinds \cup SubscriptionKinds \cup InvoiceKinds
AllKinds == SyncKinds \cup OtherKinds

\* How many line items an invoice payload carries at most.
MaxLines == 2

\* Metadata of a vendor object: absent (nil map), empty, or some pairs.
Metas ==
    {NilMap, MakeMap,
     MapOf([k \in {"SPID"} |-> "sp-1"]),
     MapOf([k \in {"SPID", "PreAllocated", "ValidateOnly"} |->
              IF k = "SPID" THEN "sp-2" ELSE IF k = "PreAllocated" THEN "true" ELSE "false"])}
FullMeta ==
    MapOf([k \in {"SPID", "AccountType", "AccountExternalID"} |->
              IF k = "SPID" THEN "sp-3" ELSE IF k = "AccountType" THEN "business" ELSE "ext-9"])

\* stripe.PaymentMethod, with its optional card.
Card == [Brand |-> "visa", Last4 |-> "4242", ExpMonth |-> 12, ExpYear |-> 2030]
PaymentMethods ==
    {NilPtr, Ptr([ID |-> "pm_1", Card |-> NilPtr]), Ptr([ID |-> "pm_1", Card |-> Ptr(Card)])}

\* stripe.Error as json.Unmarshal fills it (Err is not a JSON field: it stays nil).
LastPaymentErrors ==
    {NilPtr} \cup
    {Ptr([Code |-> "card_declined", Msg |-> "Your card was declined.", Err |-> NilPtr,
          DeclineCode |-> "insufficient_funds", PaymentMethod |-> pm, ChargeID |-> "ch_7"]) :
        pm \in {NilPtr, Ptr([ID |-> "pm_2", Card |-> NilPtr])}}

\* An expandable customer or charge reference: null, or an object with its ID.
Customers == {NilPtr, Ptr([ID |-> "cus_1"])}
Charges == {NilPtr, Ptr([ID |-> "ch_1"])}

\* Invoice line items as sent: the subscription is an ID or null.
WireLine(i, sub) ==
    [ID |-> IF i = 1 THEN "il_1" ELSE IF i = 2 THEN "il_2" ELSE "il_n",
     Amount |-> i * 100, Currency |-> "usd",
     Description |-> IF i = 1 THEN "first" ELSE IF i = 2 THEN "second" ELSE "later",
     Subscription |-> sub]
WireLineSeqs ==
    UNION {{[i \in 1 .. n |-> WireLine(i, subs[i])] : subs \in [1 .. n -> {NilPtr, Ptr("sub_1")}]} :
            n \in 0 .. MaxLines}
InvoiceLineLists == {NilPtr} \cup {Ptr([Data |-> ls]) : ls \in WireLineSeqs}

\* The object of an event, fully populated, per family.
BaseSetupIntent ==
    [ID |-> "seti_1", PaymentMethod |-> Ptr([ID |-> "pm_1", Card |-> Ptr(Card)]),
     Metadata |-> FullMeta]
BasePaymentIntent ==
    [ID |-> "pi_1", Amount |-> 500, AmountCapturable |-> 300, Status |-> "requires_capture",
     PaymentMethod |-> Ptr([ID |-> "pm_1", Card |-> NilPtr]),
     LastPaymentError |-> NilPtr, Metadata |-> FullMeta]
BaseSubscription ==
    [ID |-> "sub_1", Customer |-> Ptr([ID |-> "cus_1"]), Status |-> "active",
     CurrentPeriodEnd |-> 1700, CancelAt |-> 0, CancelAtPeriodEnd |-> TRUE,
     CanceledAt |-> 1650, Created |-> 1600, Metadata |-> FullMeta]
BaseInvoice ==
    [ID |-> "in_1", Customer |-> Ptr([ID |-> "cus_1"]), AmountDue |-> 900, Status |-> "open",
     Created |-> 1610, Lines |-> Ptr([Data |-> <<WireLine(1, Ptr("sub_1"))>>]),
     Metadata |-> FullMeta]
BaseRefund ==
    [ID |-> "re_1", Amount |-> 250, Reason |-> "requested_by_customer", Status |-> "succeeded",
     Charge |-> Ptr([ID |-> "ch_1"]), Currency |-> "usd", Created |-> 1620,
     Metadata |-> FullMeta]

\* base with one field replaced by each of the values.
Vary(base, field, values) == {[base EXCEPT ![field] = v] : v \in values}

\* The objects tried per family: the full one, and it with one optional part varied.
SetupIntents ==
    Vary(BaseSetupIntent, "Metadata", Metas) \cup Vary(BaseSetupIntent, "PaymentMethod", PaymentMethods)
PaymentIntents ==
    Vary(BasePaymentIntent, "Metadata", Metas)
        \cup Vary(BasePaymentIntent, "PaymentMethod", {NilPtr})
        \cup Vary(BasePaymentIntent, "LastPaymentError", LastPaymentErrors)
Subscriptions ==
    Vary(BaseSubscription, "Metadata", Metas) \cup Vary(BaseSubscription, "Customer", Customers)
Invoices ==
    Vary(BaseInvoice, "Metadata", Metas)
        \cup Vary(BaseInvoice, "Customer", Customers)
        \cup Vary(BaseInvoice, "Lines", InvoiceLineLists)
Refunds ==
    Vary(BaseRefund, "Metadata", Metas) \cup Vary(BaseRefund, "Charge", Charges)

ObjectsOf(kind) ==
    IF kind \in SetupIntentKinds THEN SetupIntents
    ELSE IF kind \in PaymentIntentKinds THEN PaymentIntents
    ELSE IF kind \in SubscriptionKinds THEN Subscriptions
    ELSE IF kind \in InvoiceKinds THEN Invoices
    ELSE IF kind \in RefundKinds THEN Refunds
    ELSE {[ID |-> "cus_1", Metadata |-> FullMeta]}

\* An object that json.Unmarshal rejects (event.Data.Raw is not the JSON of the type).
Malformed == [ID |-> "", Metadata |-> NilMap]

\* A webhook delivery: whether the signature verifies against the secret, the
\* kind in the envelope, whether the nested object decodes, and the object.
Payloads ==
    {[sig |-> FALSE, kind |-> "payment_intent.succeeded", decodable |-> TRUE, obj |-> BasePaymentIntent],
     [sig |-> FALSE, kind |-> "customer.created", decodable |-> FALSE, obj |-> Malformed]}
    \cup {[sig |-> TRUE, kind |-> k, decodable |-> FALSE, obj |-> Malformed] : k \in AllKinds}
    \cup UNION {{[sig |-> TRUE, kind |-> k, decodable |-> TRUE, obj |-> o] : o \in ObjectsOf(k)} :
                 k \in AllKinds}

-----------------------------------------------------------------------------
(* handler.go: CallbackEvent, and the projections of HandleWebhook            *)

\* time.Time: the zero value, and time.Unix(sec, 0).
ZeroTime == [set |-> FALSE, unix |-> 0]
TimeUnix(sec) == [set |-> TRUE, unix |-> sec]

\* The zero value of CallbackEvent: every field the handlers assign, unset.
ZeroEvent ==
    [Type |-> "", Metadata |-> NilMap, PreAllocated |-> "", ValidateOnly |-> "",
     SetupIntentID |-> "", PaymentMethodID |-> "", CardBrand |-> "",
     CardExpMonth |-> 0, CardExpYear |-> 0, CardLast4 |-> "",
     PaymentIntentID |-> "", Amount |-> 0, AmountCapturable |-> 0, Status |-> "",
     LastPaymentErrorCode |-> "", LastPaymentErrorMsg |-> "",
     LastPaymentErrorDeclineCode |-> "", LastPaymentErrorPaymentMethodID |-> "",
     LastPaymentErrorChargeID |-> "",
     SubscriptionID |-> "", CustomerID |-> "", CurrentPeriodEnd |-> 0,
     CancelAtPeriodEnd |-> FALSE, CanceledAt |-> 0, Created |-> 0, CreatedAt |-> ZeroTime,
     InvoiceID |-> "", InvoiceLines |-> <<>>,
     RefundID |-> "", RefundAmount |-> 0, RefundReason |-> "", RefundStatus |-> "",
     ChargeID |-> "", Currency |-> ""]

\* The error values HandleWebhook returns, by what produced them.
NoError == [class |-> "nil", detail |-> ""]
ErrSignature == [class |-> "signature", detail |-> ""]
ErrDecode == [class |-> "decode", detail |-> ""]
ErrUnknownEventType(kind) == [class |-> "unknown event type", detail |-> kind]

\* webhook.ConstructEvent(payload, sigHeader, secret): the event, or an error.
ConstructEvent(payload) ==
    IF payload.sig
    THEN [err |-> NoError, Type |-> payload.kind]
    ELSE [err |-> ErrSignature, Type |-> ""]

\* json.Unmarshal(event.Data.Raw, &obj): the object, or an error.
Unmarshal(payload) ==
    IF payload.decodable
    THEN [err |-> NoError, obj |-> payload.obj]
    ELSE [err |-> ErrDecode, obj |-> Malformed]

\* A variant of the metadata copy that keeps the map nil when there is nothing to copy.
CopyMetadataLazy(dst, src) ==
    IF src.nil \/ DOMAIN src.kv = {} THEN NilMap
    ELSE [nil |-> FALSE, kv |-> src.kv]

\* for k, v := range src { dst[k] = v }: ranging over a nil map does nothing.
RECURSIVE CopyMetadataFrom(_, _, _)
CopyMetadataFrom(dst, src, keys) ==
    IF keys = {} THEN dst
    ELSE LET k == CHOOSE x \in keys : TRUE
         IN  CopyMetadataFrom(MapSet(dst, k, src.kv[k]), src, keys \ {k})
CopyMetadata(dst, src) == CopyMetadataFrom(dst, src, DOMAIN src.kv)

\* A variant of the discriminant that reports the family's first kind.
EventTypeOfFamily(kind) ==
    IF kind \in PaymentIntentKinds THEN "payment_intent.succeeded"
    ELSE IF kind \in SubscriptionKinds THEN "customer.subscription.updated"
    ELSE kind

\* gomultistripe.CallbackEventType(event.Type)
EventTypeOf(kind) == kind

\* The result of a projection: the event, or a panic (a nil pointer was read).
Projected(evt) == [panic |-> FALSE, event |-> evt]
ProjectionPanics == [panic |-> TRUE, event |-> ZeroEvent]

\* case setup_intent.succeeded
ProjectSetupIntent(intent) ==
    LET pm == intent.PaymentMethod
        hasCard == pm # NilPtr /\ pm[1].Card # NilPtr
        cbEvent ==
            [ZeroEvent EXCEPT
                !.Type = "setup_intent.succeeded",
                !.Metadata = MakeMap,
                !.SetupIntentID = intent.ID,
                !.PaymentMethodID = IF hasCard THEN pm[1].ID ELSE "",
                !.CardBrand = IF hasCard THEN pm[1].Card[1].Brand ELSE "",
                !.CardExpMonth = IF hasCard THEN pm[1].Card[1].ExpMonth ELSE 0,
                !.CardExpYear = IF hasCard THEN pm[1].Card[1].ExpYear ELSE 0,
                !.CardLast4 = IF hasCard THEN pm[1].Card[1].Last4 ELSE ""]
    IN  Projected([cbEvent EXCEPT !.Metadata = CopyMetadata(cbEvent.Metadata, intent.Metadata)])

\* case payment_intent.canceled, .payment_failed, .succeeded, .amount_capturable_updated
ProjectPaymentIntent(kind, intent) ==
    LET evt ==
            [ZeroEvent EXCEPT
                !.Type = EventTypeOf(kind),
                !.Metadata = MakeMap,
                !.PreAllocated = MapGet(intent.Metadata, "PreAllocated"),
                !.ValidateOnly = MapGet(intent.Metadata, "ValidateOnly"),
                !.PaymentIntentID = intent.ID,
                !.Amount = intent.Amount,
                !.Status = intent.Status,
                !.PaymentMethodID =
                    IF intent.PaymentMethod # NilPtr THEN intent.PaymentMethod[1].ID ELSE ""]
        withMeta == [evt EXCEPT !.Metadata = CopyMetadata(evt.Metadata, intent.Metadata)]
        withCapturable ==
            IF kind = "payment_intent.amount_capturable_updated"
            THEN [withMeta EXCEPT !.AmountCapturable = intent.AmountCapturable]
            ELSE withMeta
        lpe == intent.LastPaymentError
        withError ==
            IF kind = "payment_intent.payment_failed" /\ lpe # NilPtr
            THEN [withCapturable EXCEPT
                    !.LastPaymentErrorCode = lpe[1].Code,
                    !.LastPaymentErrorMsg = IF lpe[1].Err # NilPtr THEN lpe[1].Err[1] ELSE "",
                    !.LastPaymentErrorDeclineCode = lpe[1].DeclineCode,
                    !.LastPaymentErrorPaymentMethodID =
                        IF lpe[1].PaymentMethod # NilPtr THEN lpe[1].PaymentMethod[1].ID ELSE "",
                    !.LastPaymentErrorChargeID = lpe[1].ChargeID]
            ELSE withCapturable
    IN  Projected(withError)

\* case customer.subscription.*; the channel handler stores Created, the
\* synchronous ones CreatedAt. sub.Customer.ID reads through the pointer.
ProjectSubscription(kind, sub, intoChannel) ==
    IF sub.Customer = NilPtr THEN ProjectionPanics
    ELSE
    LET cbEvent ==
            [ZeroEvent EXCEPT
                !.Type = EventTypeOf(kind),
                !.Metadata = MakeMap,
                !.SubscriptionID = sub.ID,
                !.CustomerID = sub.Customer[1].ID,
                !.Status = sub.Status,
                !.CurrentPeriodEnd = sub.CancelAt,
                !.CancelAtPeriodEnd = sub.CancelAtPeriodEnd,
                !.CanceledAt = sub.CanceledAt,
                !.Created = IF intoChannel THEN sub.Created ELSE 0,
                !.CreatedAt = IF intoChannel THEN ZeroTime ELSE TimeUnix(sub.Created)]
    IN  Projected([cbEvent EXCEPT !.Metadata = CopyMetadata(cbEvent.Metadata, sub.Metadata)])

\* The line's subscription as the SDK decodes it: a string in v74, a pointer
\* to a Subscription from v79 on.
DecodeLine(version, wire) ==
    IF version = "v74"
    THEN [wire EXCEPT !.Subscription = IF wire.Subscription = NilPtr THEN "" ELSE wire.Subscription[1]]
    ELSE [wire EXCEPT !.Subscription =
            IF wire.Subscription = NilPtr THEN NilPtr ELSE Ptr([ID |-> wire.Subscription[1]])]

\* A variant in which only the v74 line carries its subscription.
ProjectLineV74Only(version, line) ==
    [ID |-> line.ID, Amount |-> line.Amount, Currency |-> line.Currency,
     Description |-> line.Description,
     SubscriptionID |->
        IF version = "v74"
        THEN (IF line.Subscription # "" THEN line.Subscription ELSE "")
        ELSE ""]

\* gmline := InvoiceLine{...}; if the line has a subscription, its ID.
ProjectLine(version, line) ==
    [ID |-> line.ID, Amount |-> line.Amount, Currency |-> line.Currency,
     Description |-> line.Description,
     SubscriptionID |->
        IF version = "v74"
        THEN (IF line.Subscription # "" THEN line.Subscription ELSE "")
        ELSE (IF line.Subscription # NilPtr THEN line.Subscription[1].ID ELSE "")]

\* A variant of the loop that puts each line in front of those before it.
AppendLinesFront(version, acc, data) ==
    acc \o [i \in 1 .. Len(data) |->
               ProjectLine(version, DecodeLine(version, data[Len(data) + 1 - i]))]

\* for _, line := range inv.Lines.Data { ...; cbEvent.InvoiceLines = append(...) }
RECURSIVE AppendLines(_, _, _)
AppendLines(version, acc, data) ==
    IF data = <<>> THEN acc
    ELSE AppendLines(version, Append(acc, ProjectLine(version, DecodeLine(version, Head(data)))), Tail(data))

\* case invoice.*; inv.Customer.ID reads through the pointer.
ProjectInvoice(kind, inv, version, intoChannel) ==
    IF inv.Customer = NilPtr THEN ProjectionPanics
    ELSE
    LET cbEvent ==
            [ZeroEvent EXCEPT
                !.Type = EventTypeOf(kind),
                !.Metadata = MakeMap,
                !.InvoiceID = inv.ID,
                !.CustomerID = inv.Customer[1].ID,
                !.Amount = inv.AmountDue,
                !.Status = inv.Status,
                !.Created = IF intoChannel THEN inv.Created ELSE 0,
                !.CreatedAt = IF intoChannel THEN ZeroTime ELSE TimeUnix(inv.Created)]
        withMeta == [cbEvent EXCEPT !.Metadata = CopyMetadata(cbEvent.Metadata, inv.Metadata)]
    IN  Projected(
            IF inv.Lines # NilPtr
            THEN [withMeta EXCEPT !.InvoiceLines = AppendLines(version, <<>>, inv.Lines[1].Data)]
            ELSE withMeta)

\* A variant of the refund arm that stores the refunded amount in Amount as well.
ProjectRefundIntoAmount(kind, refund) ==
    IF refund.Charge = NilPtr THEN ProjectionPanics
    ELSE Projected([ZeroEvent EXCEPT
                      !.Type = EventTypeOf(kind),
                      !.Metadata = CopyMetadata(MakeMap, refund.Metadata),
                      !.RefundID = refund.ID,
                      !.Amount = refund.Amount,
                      !.RefundAmount = refund.Amount,
                      !.RefundReason = refund.Reason,
                      !.RefundStatus = refund.Status,
                      !.ChargeID = refund.Charge[1].ID,
                      !.Currency = refund.Currency,
                      !.CreatedAt = TimeUnix(refund.Created)])

\* case refund.*, charge.refunded; refund.Charge.ID reads through the pointer.
ProjectRefund(kind, refund) ==
    IF refund.Charge = NilPtr THEN ProjectionPanics
    ELSE
    LET cbEvent ==
            [ZeroEvent EXCEPT
                !.Type = EventTypeOf(kind),
                !.Metadata = MakeMap,
                !.RefundID = refund.ID,
                !.RefundAmount = refund.Amount,
                !.RefundReason = refund.Reason,
                !.RefundStatus = refund.Status,
                !.ChargeID = refund.Charge[1].ID,
                !.Currency = refund.Currency,
                !.CreatedAt = TimeUnix(refund.Created)]
    IN  Projected([cbEvent EXCEPT !.Metadata = CopyMetadata(cbEvent.Metadata, refund.Metadata)])

\* The case arm of the switch that takes the kind.
Project(kind, obj, version, intoChannel) ==
    IF kind \in SetupIntentKinds THEN ProjectSetupIntent(obj)
    ELSE IF kind \in PaymentIntentKinds THEN ProjectPaymentIntent(kind, obj)
    ELSE IF kind \in SubscriptionKinds THEN ProjectSubscription(kind, obj, intoChannel)
    ELSE IF kind \in InvoiceKinds THEN ProjectInvoice(kind, obj, version, intoChannel)
    ELSE ProjectRefund(kind, obj)

-----------------------------------------------------------------------------
(* HandleWebhook: the synchronous handlers (v74, v79) and CallbackHandlerV74   *)

\* What a call did: the event and error it returned, the events it sent on the
\* channel, whether it panicked instead of returning, and the steps it ran.
Outcome(event, err, sent, panic, steps) ==
    [event |-> event, err |-> err, sent |-> sent, panic |-> panic, steps |-> steps]

\* A variant of the synchronous handler's last line that ignores the event.
SyncUnknownIgnored(kind, steps) == Outcome(NilPtr, NoError, <<>>, FALSE, steps)

\* return nil, fmt.Errorf("unknown event type: %s", event.Type)
SyncUnknown(kind, steps) == Outcome(NilPtr, ErrUnknownEventType(kind), <<>>, FALSE, steps)

\* A variant of the channel handler that sends a bare event for a kind it does not know.
QueueUnknownForwarded(kind, steps) ==
    Outcome(NilPtr, NoError, <<[ZeroEvent EXCEPT !.Type = kind, !.Metadata = MakeMap]>>, FALSE, steps)

\* The switch of the channel handler has no default: return nil.
QueueUnknown(kind, steps) == Outcome(NilPtr, NoError, <<>>, FALSE, steps)

\* A variant that goes on to the switch with the zero event after a failed verification.
VerifyFailedContinues(err, intoChannel) ==
    IF intoChannel
    THEN Outcome(NilPtr, err, <<ZeroEvent>>, FALSE, <<"verify", "classify">>)
    ELSE Outcome(Ptr(ZeroEvent), err, <<>>, FALSE, <<"verify", "classify">>)

\* if err != nil { return nil, err } after webhook.ConstructEvent
VerifyFailed(err, intoChannel) == Outcome(NilPtr, err, <<>>, FALSE, <<"verify">>)

\* A variant that delivers the partly filled event after a failed decode.
DecodeFailedDelivers(err, intoChannel) ==
    IF intoChannel
    THEN Outcome(NilPtr, err, <<ZeroEvent>>, FALSE, <<"verify", "classify", "decode", "deliver">>)
    ELSE Outcome(Ptr(ZeroEvent), err, <<>>, FALSE, <<"verify", "classify", "decode", "deliver">>)

\* if err := json.Unmarshal(...); err != nil { return nil, err }
DecodeFailed(err, intoChannel) ==
    Outcome(NilPtr, err, <<>>, FALSE, <<"verify", "classify", "decode">>)

\* A variant of the body that classifies, decodes and projects before it
\* looks at the signature.
HandleWebhookVerifyLast(version, known, intoChannel, payload) ==
    IF payload.kind \notin known
    THEN (IF intoChannel
          THEN QueueUnknown(payload.kind, <<"classify">>)
          ELSE SyncUnknown(payload.kind, <<"classify">>))
    ELSE IF ~payload.decodable
    THEN Outcome(NilPtr, ErrDecode, <<>>, FALSE, <<"classify", "decode">>)
    ELSE
    LET pr == Project(payload.kind, payload.obj, version, intoChannel)
    IN  IF pr.panic
        THEN Outcome(NilPtr, NoError, <<>>, TRUE, <<"classify", "decode", "project">>)
        ELSE IF ~payload.sig
        THEN Outcome(NilPtr, ErrSignature, <<>>, FALSE,
                     <<"classify", "decode", "project", "verify">>)
        ELSE IF intoChannel
        THEN Outcome(NilPtr, NoError, <<pr.event>>, FALSE,
                     <<"classify", "decode", "project", "verify", "deliver">>)
        ELSE Outcome(Ptr(pr.event), NoError, <<>>, FALSE,
                     <<"classify", "decode", "project", "verify", "deliver">>)

\* The body the handlers share: verify, classify, decode, project, deliver.
\* `known` are the kinds the switch names; the synchronous handlers return the
\* event, the channel handler sends it (h.events <- evt) and returns nil.
HandleWebhookBody(version, known, intoChannel, payload) ==
    LET ce == ConstructEvent(payload)
    IN  IF ce.err # NoError THEN VerifyFailed(ce.err, intoChannel)
        ELSE IF ce.Type \notin known
        THEN (IF intoChannel
              THEN QueueUnknown(ce.Type, <<"verify", "classify">>)
              ELSE SyncUnknown(ce.Type, <<"verify", "classify">>))
        ELSE
        LET d == Unmarshal(payload)
        IN  IF d.err # NoError THEN DecodeFailed(d.err, intoChannel)
            ELSE
            LET pr == Project(ce.Type, d.obj, version, intoChannel)
            IN  IF pr.panic
                THEN Outcome(NilPtr, NoError, <<>>, TRUE,
                             <<"verify", "classify", "decode", "project">>)
                ELSE IF intoChannel
                THEN Outcome(NilPtr, NoError, <<pr.event>>, FALSE,
                             <<"verify", "classify", "decode", "project", "deliver">>)
                ELSE Outcome(Ptr(pr.event), NoError, <<>>, FALSE,
                             <<"verify", "classify", "decode", "project", "deliver">>)

\* func (h *HandlerV74) HandleWebhook(payload, sigHeader) (*CallbackEvent, error)
HandlerV74HandleWebhook(payload) == HandleWebhookBody("v74", SyncKinds, FALSE, payload)

\* func (h *HandlerV79) HandleWebhook(payload, sigHeader) (*CallbackEvent, error)
HandlerV79HandleWebhook(payload) == HandleWebhookBody("v79", SyncKinds, FALSE, payload)

\* func (h *CallbackHandlerV74) HandleWebhook(payload, sigHeader) error
CallbackHandlerV74HandleWebhook(payload) == HandleWebhookBody("v74", QueueKinds, TRUE, payload)

\* make(chan gomultistripe.CallbackEvent, 100)
EventsCap == 100

\* The inbound requests, each of which makes one HandleWebhook call.
Callers == {"r1", "r2"}

NoCall ==
    [handler |-> "none", payload |-> [sig |-> FALSE, kind |-> "", decodable |-> FALSE, obj |-> Malformed],
     out |-> Outcome(NilPtr, NoError, <<>>, FALSE, <<>>), before |-> <<>>, after |-> <<>>]

\* A request handled through the synchronous handler of a version.
CallHandleWebhook(c, version, payload) ==
    /\ c \notin called
    /\ called' = called \cup {c}
    /\ last' = [handler |-> version, payload |-> payload,
                out |-> IF version = "v74" THEN HandlerV74HandleWebhook(payload)
                        ELSE HandlerV79HandleWebhook(payload),
                before |-> events, after |-> events]
    /\ UNCHANGED events
    /\ UNCHANGED <<regVars, concVars, queueVars, opLast, upd>>

\* A request handled through the channel handler: the call returns when the
\* event, if there is one, is in the channel; a send on a full channel waits.
CallCallbackHandleWebhook(c, payload) ==
    LET out == CallbackHandlerV74HandleWebhook(payload)
    IN  /\ c \notin called
        /\ Len(events) + Len(out.sent) <= EventsCap
        /\ called' = called \cup {c}
        /\ events' = events \o out.sent
        /\ last' = [handler |-> "callback-v74", payload |-> payload, out |-> out,
                    before |-> events, after |-> events']
        /\ UNCHANGED <<regVars, concVars, queueVars, opLast, upd>>

\* The consumer takes the next event from Events().
Receive ==
    /\ events # <<>>
    /\ events' = Tail(events)
    /\ UNCHANGED <<called, last>>
    /\ UNCHANGED <<regVars, concVars, queueVars, opLast, upd>>

-----------------------------------------------------------------------------
(* CallbackHandlerV74 with several requests in flight: each producer         *)
(* goroutine runs HandleWebhook, whose send waits while the channel is full *)

\* The goroutines that serve inbound requests.
Producers == {"p1", "p2"}

\* How many HandleWebhook calls get as far as their send, at most.
MaxCalls == 102

\* How many events the consumer receives at most while the channel fills.
MaxDrain == 3

\* A producer between calls.
Resting == [pc |-> "idle", evt |-> ZeroEvent, parkedAt |-> 0]

\* What the last returned call did: its error, whether it sent an event,
\* whether it waited in the send, and whether an event was received meanwhile.
NoReturn ==
    [returned |-> FALSE, err |-> NoError, sent |-> FALSE, parked |-> FALSE, drained |-> FALSE]

\* The number a payment event carries: in the histories it stands for the event.
Tag(e) == e.Amount
TagsOf(buf) == [i \in 1 .. Len(buf) |-> Tag(buf[i])]

\* The channel NewCallbackHandlerV74 makes: channel number 1, open.
MadeChannel == [id |-> 1, closed |-> FALSE]

\* A variant of the channel that takes an event whatever it holds.
ChanAlwaysHasRoom(buf) == TRUE

\* A send goes through at once when the buffer holds fewer than its capacity.
ChanHasRoom(buf) == Len(buf) < EventsCap

\* A variant of the channel that hands out the newest event first.
ChanPutFront(buf, evt) == <<evt>> \o buf

\* h.events <- evt puts the event behind those the buffer holds.
ChanPut(buf, evt) == Append(buf, evt)

\* A variant of Events that makes a channel of its own for each caller.
EventsFresh(h) == h.id + 1

\* func (h *CallbackHandlerV74) Events(): return h.events
Events(h) == h.id

\* The payloads of the requests when only the number of events matters: one
\* that yields an event, and one that fails at each of verify, classify, decode.
QueuePayloads ==
    {[sig |-> TRUE, kind |-> "payment_intent.succeeded", decodable |-> TRUE, obj |-> BasePaymentIntent],
     [sig |-> FALSE, kind |-> "payment_intent.succeeded", decodable |-> TRUE, obj |-> BasePaymentIntent],
     [sig |-> TRUE, kind |-> "customer.created", decodable |-> FALSE, obj |-> Malformed],
     [sig |-> TRUE, kind |-> "invoice.created", decodable |-> FALSE, obj |-> Malformed]}

\* The payload of the n-th request when events must be told apart: a payment
\* of n, or a request whose signature does not verify.
TaggedPayload(n) ==
    [sig |-> TRUE, kind |-> "payment_intent.succeeded", decodable |-> TRUE,
     obj |-> [BasePaymentIntent EXCEPT !.Amount = n]]
TaggedPayloads(n) ==
    {TaggedPayload(n),
     [sig |-> FALSE, kind |-> "payment_intent.succeeded", decodable |-> TRUE, obj |-> BasePaymentIntent]}

\* A producer enters HandleWebhook: verify, classify, decode, project. A call
\* that has no event to send returns here; one that has goes on to the send.
ProducerBegin(p, payload) ==
    LET out == CallbackHandlerV74HandleWebhook(payload)
    IN  /\ prod[p].pc = "idle"
        /\ started < MaxCalls
        /\ IF out.sent = <<>>
           THEN /\ qret' = [NoReturn EXCEPT !.returned = TRUE, !.err = out.err]
                /\ UNCHANGED <<prod, started>>
           ELSE /\ prod' = [prod EXCEPT ![p] = [pc |-> "send", evt |-> out.sent[1], parkedAt |-> 0]]
                /\ started' = started + 1
                /\ UNCHANGED qret
        /\ UNCHANGED <<events, order, recvd, ch, evRet>>
        /\ UNCHANGED <<called, last, regVars, concVars, opLast, upd>>

\* h.events <- evt with the buffer full: the goroutine waits in the send.
ProducerPark(p) ==
    /\ prod[p].pc = "send"
    /\ ~ChanHasRoom(events)
    /\ prod' = [prod EXCEPT ![p].pc = "blocked", ![p].parkedAt = Len(recvd)]
    /\ UNCHANGED <<events, started, order, recvd, ch, evRet, qret>>
    /\ UNCHANGED <<called, last, regVars, concVars, opLast, upd>>

\* h.events <- evt goes through, and HandleWebhook returns nil.
ProducerSend(p) ==
    /\ prod[p].pc \in {"send", "blocked"}
    /\ ChanHasRoom(events)
    /\ events' = ChanPut(events, prod[p].evt)
    /\ order' = Append(order, Tag(prod[p].evt))
    /\ prod' = [prod EXCEPT ![p] = Resting]
    /\ qret' = [returned |-> TRUE, err |-> NoError, sent |-> TRUE,
                parked |-> prod[p].pc = "blocked",
                drained |-> prod[p].pc = "blocked" /\ Len(recvd) > prod[p].parkedAt]
    /\ UNCHANGED <<started, recvd, ch, evRet>>
    /\ UNCHANGED <<called, last, regVars, concVars, opLast, upd>>

\* A consumer that receives one event and then stops receiving.
ConsumerReceiveOnce(limit) ==
    /\ events # <<>>
    /\ recvd = <<>>
    /\ recvd' = Append(recvd, Tag(Head(events)))
    /\ events' = Tail(events)
    /\ UNCHANGED <<prod, started, order, ch, evRet, qret>>
    /\ UNCHANGED <<called, last, regVars, concVars, opLast, upd>>

\* The consumer receives from Events(): the oldest event leaves the buffer.
ConsumerReceive(limit) ==
    /\ events # <<>>
    /\ Len(recvd) < limit
    /\ recvd' = Append(recvd, Tag(Head(events)))
    /\ events' = Tail(events)
    /\ UNCHANGED <<prod, started, order, ch, evRet, qret>>
    /\ UNCHANGED <<called, last, regVars, concVars, opLast, upd>>

\* Some goroutine calls Events().
CallEvents ==
    /\ evRet' = Events(ch)
    /\ evRet' # evRet
    /\ UNCHANGED <<events, prod, started, order, recvd, ch, qret>>
    /\ UNCHANGED <<called, last, regVars, concVars, opLast, upd>>

-----------------------------------------------------------------------------
(* The adapters: HandlerV74 (handler.go), HandlerV76 and HandlerV80. Each    *)
(* operation builds the SDK's parameters, makes its SDK call and converts   *)
(* what comes back; the vendor's reply is an input.                         *)

\* The versions whose adapter is modelled; v80 has the first seven operations.
AdapterVersions == {"v74", "v76", "v80"}

\* Errors the SDK call returns: they belong to the vendor.
VendorErrors ==
    {[class |-> "vendor", detail |-> "card_declined"],
     [class |-> "vendor", detail |-> "resource_missing"]}

\* The vendor's objects, as the SDK decodes them.
VendorCustomer ==
    [ID |-> "cus_1", Name |-> "Ann", Email |-> "ann@example.com", Phone |-> "555",
     Address |-> Ptr([PostalCode |-> "6011"]), Created |-> 1500, Metadata |-> FullMeta]
VendorCustomers ==
    Vary(VendorCustomer, "Address", {NilPtr, VendorCustomer.Address})
        \cup Vary(VendorCustomer, "Metadata", {NilMap})

VendorPaymentMethod ==
    [ID |-> "pm_1", Customer |-> Ptr([ID |-> "cus_1"]), Type |-> "card", Card |-> Ptr(Card),
     Created |-> 1510, Metadata |-> FullMeta]
VendorPaymentMethods ==
    {VendorPaymentMethod, [VendorPaymentMethod EXCEPT !.ID = "pm_2", !.Metadata = NilMap]}

VendorPaymentIntent ==
    [ID |-> "pi_1", Amount |-> 500, Currency |-> "usd", Status |-> "succeeded",
     ClientSecret |-> "pi_1_secret", Customer |-> Ptr([ID |-> "cus_1"]),
     PaymentMethod |-> Ptr([ID |-> "pm_1", Card |-> NilPtr]), Created |-> 1520,
     Metadata |-> FullMeta]
VendorPaymentIntents ==
    Vary(VendorPaymentIntent, "PaymentMethod", {NilPtr, VendorPaymentIntent.PaymentMethod})
        \cup Vary(VendorPaymentIntent, "Customer", {NilPtr})
        \cup Vary(VendorPaymentIntent, "Metadata", {NilMap})

VendorSubscription ==
    [ID |-> "sub_1", Customer |-> Ptr([ID |-> "cus_1"]), Status |-> "active",
     Items |-> [Data |-> <<[Price |-> Ptr([ID |-> "price_1"])]>>],
     CurrentPeriodEnd |-> 1700, CancelAt |-> 0, CancelAtPeriodEnd |-> FALSE,
     CanceledAt |-> 0, Created |-> 1600, Metadata |-> FullMeta]
VendorSubscriptions ==
    Vary(VendorSubscription, "Items",
         {VendorSubscription.Items, [Data |-> <<>>], [Data |-> <<[Price |-> NilPtr]>>]})
        \cup {[VendorSubscription EXCEPT !.CancelAt = 1700, !.CancelAtPeriodEnd = TRUE],
              [VendorSubscription EXCEPT !.Status = "canceled", !.CanceledAt = 1650]}
        \cup Vary(VendorSubscription, "Metadata", {NilMap})

\* What an SDK call that returns one object replies: the object, or an error.
Replies(objects) ==
    {[err |-> NoError, obj |-> Ptr(o)] : o \in objects}
        \cup {[err |-> e, obj |-> NilPtr] : e \in VendorErrors}

\* What a list iterator yields: some objects, then the end or an error.
ListReplies(objects) ==
    {[err |-> e, items |-> items] :
        e \in {NoError} \cup VendorErrors,
        items \in {<<>>} \cup {<<o>> : o \in objects} \cup {<<o1, o2>> : o1 \in objects, o2 \in objects}}

\* The result of a conversion: the struct, or a panic (a nil pointer was read).
Converted(value) == [panic |-> FALSE, value |-> value]
ConversionPanics == [panic |-> TRUE, value |-> <<>>]

\* if x.Metadata != nil { return x.Metadata } else { return make(map[string]string) }
MetadataOrEmpty(m) == IF ~m.nil THEN m ELSE MakeMap

\* &gomultistripe.Customer{...}; HandlerV80 sets neither Metadata nor CreatedAt.
ToCustomer(version, cust) ==
    Converted([ID |-> cust.ID, Name |-> cust.Name, Email |-> cust.Email, Phone |-> cust.Phone,
               Metadata |-> IF version = "v80" THEN NilMap ELSE MetadataOrEmpty(cust.Metadata),
               Postcode |-> IF cust.Address # NilPtr THEN cust.Address[1].PostalCode ELSE "",
               CreatedAt |-> IF version = "v80" THEN ZeroTime ELSE TimeUnix(cust.Created)])

\* &gomultistripe.PaymentMethod{...}; pm.Card and (but for v80) pm.Customer are read through.
ToPaymentMethod(version, pm) ==
    IF pm.Card = NilPtr \/ (version # "v80" /\ pm.Customer = NilPtr) THEN ConversionPanics
    ELSE Converted(
            [ID |-> pm.ID,
             CustomerID |-> IF version = "v80" THEN "" ELSE pm.Customer[1].ID,
             Metadata |-> IF version = "v80" THEN NilMap ELSE MetadataOrEmpty(pm.Metadata),
             Type |-> pm.Type, Last4 |-> pm.Card[1].Last4, Brand |-> pm.Card[1].Brand,
             ExpMonth |-> pm.Card[1].ExpMonth, ExpYear |-> pm.Card[1].ExpYear,
             CreatedAt |-> IF version = "v80" THEN ZeroTime ELSE TimeUnix(pm.Created)])

\* &gomultistripe.PaymentIntent{...}; pi.Customer is read through.
ToPaymentIntent(version, pi) ==
    IF pi.Customer = NilPtr THEN ConversionPanics
    ELSE Converted(
            [ID |-> pi.ID, Amount |-> pi.Amount, Currency |-> pi.Currency, Status |-> pi.Status,
             ClientSecret |-> pi.ClientSecret, CustomerID |-> pi.Customer[1].ID,
             CreatedAt |-> IF version = "v80" THEN ZeroTime ELSE TimeUnix(pi.Created),
             Metadata |-> IF version = "v80" THEN NilMap ELSE MetadataOrEmpty(pi.Metadata),
             PaymentMethod |-> IF pi.PaymentMethod # NilPtr THEN pi.PaymentMethod[1].ID ELSE ""])

\* &gomultistripe.Subscription{...}; s.Customer is read through, and
\* CurrentPeriodEnd is given s.CancelAt.
ToSubscription(s) ==
    IF s.Customer = NilPtr THEN ConversionPanics
    ELSE Converted(
            [ID |-> s.ID, CustomerID |-> s.Customer[1].ID, Status |-> s.Status,
             PriceID |-> IF Len(s.Items.Data) > 0 /\ s.Items.Data[1].Price # NilPtr
                         THEN s.Items.Data[1].Price[1].ID ELSE "",
             CurrentPeriodEnd |-> s.CancelAt,
             CancelAtPeriodEnd |-> s.CancelAtPeriodEnd,
             CanceledAt |-> s.CanceledAt,
             CreatedAt |-> TimeUnix(s.Created),
             Metadata |-> MetadataOrEmpty(s.Metadata)])

\* What an adapter operation hands back: its result and error, whether it
\* panicked instead of returning, and the SDK calls it made, in order.
OpOutcome(result, err, calls) == [result |-> result, err |-> err, panic |-> FALSE, calls |-> calls]
PanicOutcome(calls) == [result |-> NilPtr, err |-> NoError, panic |-> TRUE, calls |-> calls]

\* One invocation of an SDK function with its id argument and its parameters.
SdkCall(fn, id, params) == [fn |-> fn, id |-> id, params |-> params]

\* if err != nil { return nil, err }, with the error the SDK returned reaching the caller wrapped.
ReturnVendorErrorWrapped(err, calls) ==
    OpOutcome(NilPtr, [class |-> "adapter", detail |-> err.detail], calls)

\* if err != nil { return nil, err }
ReturnVendorError(err, calls) == OpOutcome(NilPtr, err, calls)

\* return &gomultistripe.X{...}, nil
ReturnConverted(cv, calls) ==
    IF cv.panic THEN PanicOutcome(calls) ELSE OpOutcome(Ptr(cv.value), NoError, calls)

\* &stripe.CustomerParams{...} of CreateCustomer and UpdateCustomer
CustomerParams(params) ==
    Ptr([Name |-> params.Name, Email |-> params.Email, Phone |-> params.Phone,
         Address |-> [PostalCode |-> params.Postcode]])

CreateCustomer(version, params, reply) ==
    IF params = NilPtr THEN PanicOutcome(<<>>)
    ELSE LET calls == <<SdkCall("customer.New", "", CustomerParams(params[1]))>>
         IN  IF reply.err # NoError THEN ReturnVendorError(reply.err, calls)
             ELSE ReturnConverted(ToCustomer(version, reply.obj[1]), calls)

UpdateCustomer(version, customerID, params, reply) ==
    IF params = NilPtr THEN PanicOutcome(<<>>)
    ELSE LET calls == <<SdkCall("customer.Update", customerID, CustomerParams(params[1]))>>
         IN  IF reply.err # NoError THEN ReturnVendorError(reply.err, calls)
             ELSE ReturnConverted(ToCustomer(version, reply.obj[1]), calls)

\* A list operation after its SDK call, cvs being the conversions of the items
\* the iterator yields, in order: for iter.Next() { out = append(out, &X{...}) };
\* if err := iter.Err(); err != nil { return nil, err }; return out, nil
ReturnListed(cvs, reply, calls) ==
    IF \E i \in DOMAIN cvs : cvs[i].panic THEN PanicOutcome(calls)
    ELSE IF reply.err # NoError THEN ReturnVendorError(reply.err, calls)
    ELSE OpOutcome([i \in DOMAIN cvs |-> cvs[i].value], NoError, calls)

GetPaymentMethods(version, customerID, reply) ==
    LET calls == <<SdkCall("paymentmethod.List", "", Ptr([Customer |-> customerID, Type |-> "card"]))>>
        cvs == [i \in DOMAIN reply.items |-> ToPaymentMethod(version, reply.items[i])]
    IN  ReturnListed(cvs, reply, calls)

AttachPaymentMethod(version, customerID, paymentMethodID, reply) ==
    LET calls == <<SdkCall("paymentmethod.Attach", paymentMethodID, Ptr([Customer |-> customerID]))>>
    IN  IF reply.err # NoError THEN ReturnVendorError(reply.err, calls)
        ELSE ReturnConverted(ToPaymentMethod(version, reply.obj[1]), calls)

\* _, err := paymentmethod.Detach(paymentMethodID, nil); return err
DetachPaymentMethod(version, paymentMethodID, reply) ==
    OpOutcome(NilPtr, reply.err, <<SdkCall("paymentmethod.Detach", paymentMethodID, NilPtr)>>)

CreatePaymentIntent(version, params, reply) ==
    IF params = NilPtr THEN PanicOutcome(<<>>)
    ELSE LET stripeParams == Ptr([Amount |-> params[1].Amount, Currency |-> params[1].Currency,
                                  Customer |-> params[1].CustomerID,
                                  PaymentMethod |-> params[1].PaymentMethod, Confirm |-> TRUE])
             calls == <<SdkCall("paymentintent.New", "", stripeParams)>>
         IN  IF reply.err # NoError THEN ReturnVendorError(reply.err, calls)
             ELSE ReturnConverted(ToPaymentIntent(version, reply.obj[1]), calls)

RetrievePaymentIntent(version, paymentIntentID, reply) ==
    LET calls == <<SdkCall("paymentintent.Get", paymentIntentID, NilPtr)>>
    IN  IF reply.err # NoError THEN ReturnVendorError(reply.err, calls)
        ELSE ReturnConverted(ToPaymentIntent(version, reply.obj[1]), calls)

CreateSubscription(customerID, priceID, reply) ==
    LET params == Ptr([Customer |-> customerID, Items |-> <<[Price |-> priceID]>>])
        calls == <<SdkCall("subscription.New", "", params)>>
    IN  IF reply.err # NoError THEN ReturnVendorError(reply.err, calls)
        ELSE ReturnConverted(ToSubscription(reply.obj[1]), calls)

ListSubscriptions(customerID, reply) ==
    LET calls == <<SdkCall("subscription.List", "", Ptr([Customer |-> customerID]))>>
        cvs == [i \in DOMAIN reply.items |-> ToSubscription(reply.items[i])]
    IN  ReturnListed(cvs, reply, calls)

\* UpdateSubscription with the price item set whatever newPriceID is.
UpdateSubscriptionAlwaysPrice(subscriptionID, cancelAtPeriodEnd, newPriceID, reply) ==
    LET params == Ptr([CancelAtPeriodEnd |-> cancelAtPeriodEnd,
                       Items |-> <<[Price |-> newPriceID]>>])
        calls == <<SdkCall("subscription.Update", subscriptionID, params)>>
    IN  IF reply.err # NoError THEN ReturnVendorError(reply.err, calls)
        ELSE ReturnConverted(ToSubscription(reply.obj[1]), calls)

\* params.Items stays nil unless newPriceID != ""
UpdateSubscription(subscriptionID, cancelAtPeriodEnd, newPriceID, reply) ==
    LET params == Ptr([CancelAtPeriodEnd |-> cancelAtPeriodEnd,
                       Items |-> IF newPriceID # "" THEN <<[Price |-> newPriceID]>> ELSE <<>>])
        calls == <<SdkCall("subscription.Update", subscriptionID, params)>>
    IN  IF reply.err # NoError THEN ReturnVendorError(reply.err, calls)
        ELSE ReturnConverted(ToSubscription(reply.obj[1]), calls)

CancelSubscription(subscriptionID, atPeriodEnd, reply) ==
    LET params == Ptr([InvoiceNow |-> ~atPeriodEnd, Prorate |-> ~atPeriodEnd])
        calls == <<SdkCall("subscription.Cancel", subscriptionID, params)>>
    IN  IF reply.err # NoError THEN ReturnVendorError(reply.err, calls)
        ELSE ReturnConverted(ToSubscription(reply.obj[1]), calls)

\* Before any adapter operation has been called.
NoOp == [version |-> "", op |-> "", args |-> <<>>, reply |-> [err |-> NoError],
         out |-> OpOutcome(NilPtr, NoError, <<>>)]

\* The record of one call of an adapter operation.
OpRecord(version, op, args, reply, out) ==
    [version |-> version, op |-> op, args |-> args, reply |-> reply, out |-> out]

\* The versions whose adapter has the subscription operations.
SubscriptionVersions == {"v74", "v76"}

\* What callers pass.
CustomerInputs ==
    {NilPtr,
     Ptr([Name |-> "Ann", Email |-> "ann@example.com", Phone |-> "555", Postcode |-> "6011"]),
     Ptr([Name |-> "Bob", Email |-> "", Phone |-> "", Postcode |-> ""])}
PaymentIntentInputs ==
    {NilPtr,
     Ptr([Amount |-> 500, Currency |-> "usd", CustomerID |-> "cus_1", PaymentMethod |-> "pm_1"]),
     Ptr([Amount |-> 500, Currency |-> "usd", CustomerID |-> "", PaymentMethod |-> ""])}
PriceInputs == {"", "price_1", "price_2"}

CallCreateCustomer(version, params, reply) ==
    /\ opLast' = OpRecord(version, "CreateCustomer", <<params>>, reply,
                          CreateCustomer(version, params, reply))
    /\ UNCHANGED <<events, called, last, regVars, concVars, queueVars, upd>>

CallUpdateCustomer(version, customerID, params, reply) ==
    /\ opLast' = OpRecord(version, "UpdateCustomer", <<customerID, params>>, reply,
                          UpdateCustomer(version, customerID, params, reply))
    /\ UNCHANGED <<events, called, last, regVars, concVars, queueVars, upd>>

CallGetPaymentMethods(version, customerID, reply) ==
    /\ opLast' = OpRecord(version, "GetPaymentMethods", <<customerID>>, reply,
                          GetPaymentMethods(version, customerID, reply))
    /\ UNCHANGED <<events, called, last, regVars, concVars, queueVars, upd>>

CallAttachPaymentMethod(version, customerID, paymentMethodID, reply) ==
    /\ opLast' = OpRecord(version, "AttachPaymentMethod", <<customerID, paymentMethodID>>, reply,
                          AttachPaymentMethod(version, customerID, paymentMethodID, reply))
    /\ UNCHANGED <<events, called, last, regVars, concVars, queueVars, upd>>

CallDetachPaymentMethod(version, paymentMethodID, reply) ==
    /\ opLast' = OpRecord(version, "DetachPaymentMethod", <<paymentMethodID>>, reply,
                          DetachPaymentMethod(version, paymentMethodID, reply))
    /\ UNCHANGED <<events, called, last, regVars, concVars, queueVars, upd>>

CallCreatePaymentIntent(version, params, reply) ==
    /\ opLast' = OpRecord(version, "CreatePaymentIntent", <<params>>, reply,
                          CreatePaymentIntent(version, params, reply))
    /\ UNCHANGED <<events, called, last, regVars, concVars, queueVars, upd>>

CallRetrievePaymentIntent(version, paymentIntentID, reply) ==
    /\ opLast' = OpRecord(version, "RetrievePaymentIntent", <<paymentIntentID>>, reply,
                          RetrievePaymentIntent(version, paymentIntentID, reply))
    /\ UNCHANGED <<events, called, last, regVars, concVars, queueVars, upd>>

CallCreateSubscription(version, customerID, priceID, reply) ==
    /\ version \in SubscriptionVersions
    /\ opLast' = OpRecord(version, "CreateSubscription", <<customerID, priceID>>, reply,
                          CreateSubscription(customerID, priceID, reply))
    /\ UNCHANGED <<events, called, last, regVars, concVars, queueVars, upd>>

CallListSubscriptions(version, customerID, reply) ==
    /\ version \in SubscriptionVersions
    /\ opLast' = OpRecord(version, "ListSubscriptions", <<customerID>>, reply,
                          ListSubscriptions(customerID, reply))
    /\ UNCHANGED <<events, called, last, regVars, concVars, queueVars, upd>>

CallUpdateSubscription(version, subscriptionID, cancelAtPeriodEnd, newPriceID, reply) ==
    /\ version \in SubscriptionVersions
    /\ opLast' = OpRecord(version, "UpdateSubscription",
                          <<subscriptionID, cancelAtPeriodEnd, newPriceID>>, reply,
                          UpdateSubscription(subscriptionID, cancelAtPeriodEnd, newPriceID, reply))
    /\ UNCHANGED <<events, called, last, regVars, concVars, queueVars, upd>>

CallCancelSubscription(version, subscriptionID, atPeriodEnd, reply) ==
    /\ version \in SubscriptionVersions
    /\ opLast' = OpRecord(version, "CancelSubscription", <<subscriptionID, atPeriodEnd>>, reply,
                          CancelSubscription(subscriptionID, atPeriodEnd, reply))
    /\ UNCHANGED <<events, called, last, regVars, concVars, queueVars, upd>>

-----------------------------------------------------------------------------
(* cmd/update_stripe_versions: the version updater. One run of main: the     *)
(* directories v<major>, go.mod and the tags GitHub lists are what the run   *)
(* finds; every external command and file operation it makes is logged in   *)
(* order, and any one of them may fail.                                     *)

\* Version{Major, Minor, Patch}; the Tag string is the three numbers again.
Ver(major, minor, patch) == [Major |-> major, Minor |-> minor, Patch |-> patch]

\* updateExistingVersions: limit := 5
UpdateLimit == 5

\* A tag name as GitHub lists it: the numbers, and what follows them if anything.
TagName(major, minor, patch, suffix) ==
    [Major |-> major, Minor |-> minor, Patch |-> patch, Suffix |-> suffix]

\* The tag names a listing is drawn from.
TagPool ==
    {TagName(74, 1, 0, ""), TagName(79, 0, 1, ""), TagName(79, 1, 0, ""), TagName(80, 1, 0, ""),
     TagName(81, 0, 0, ""), TagName(81, 0, 1, ""), TagName(82, 0, 0, "-beta.1")}

\* The sets of directories v<major> a run may find.
DirSets == {{}, {79, 80}, {74, 76, 77, 78, 79, 80}}

\* The stripe-go requirements go.mod may hold, by major.
GoMods ==
    {[m \in {74, 80} \cup extra |->
        IF m = 74 THEN Ver(74, 0, 0)
        ELSE IF m = 80 THEN Ver(80, 1, 1)
        ELSE IF m = 79 THEN v79 ELSE Ver(81, 0, 0)] :
        extra \in SUBSET {79, 81}, v79 \in {Ver(79, 0, 1), Ver(79, 1, 0)}}

\* How many commands a run can make before one fails; 0 is a run where none does.
MaxFailAt == 6

\* a is a later release than b of the same major: the order of
\* v.Minor > e.Minor || (v.Minor == e.Minor && v.Patch > e.Patch)
Newer(a, b) == a.Minor > b.Minor \/ (a.Minor = b.Minor /\ a.Patch > b.Patch)

\* The order getStripeGoTags sorts by: major, minor, patch, descending.
Before(a, b) ==
    IF a.Major # b.Major THEN a.Major > b.Major ELSE Newer(a, b)

\* sort.Slice of a set of versions that differ pairwise, descending.
RECURSIVE SortDescending(_)
SortDescending(versions) ==
    IF versions = {} THEN <<>>
    ELSE LET first == CHOOSE v \in versions : \A w \in versions \ {v} : Before(v, w)
         IN  <<first>> \o SortDescending(versions \ {first})

\* getStripeGoTags: the names matching ^v(\d+)\.(\d+)\.(\d+)$, as versions, sorted.
ParseTags(names) ==
    SortDescending({Ver(t.Major, t.Minor, t.Patch) : t \in {n \in names : n.Suffix = ""}})

\* findExistingVersionsInDir: the directories named v<major>, minor and patch
\* unknown, sorted by major descending.
ExistingVersions(dirs) == SortDescending({Ver(m, 0, 0) : m \in dirs})

\* m[k] = v on a Go map.
MapPut(m, k, v) == [x \in DOMAIN m \cup {k} |-> IF x = k THEN v ELSE m[x]]

\* The loop that fills latestVersions: the latest minor/patch of each major.
RECURSIVE LatestVersions(_, _)
LatestVersions(latest, allTags) ==
    IF allTags = <<>> THEN latest
    ELSE LET v == Head(allTags)
         IN  LatestVersions(
                 IF v.Major \notin DOMAIN latest \/ Newer(v, latest[v.Major])
                 THEN MapPut(latest, v.Major, v) ELSE latest,
                 Tail(allTags))

\* One command or file operation of the run, and whether it succeeded.
Cmd(name, major, version) == [cmd |-> name, major |-> major, version |-> version, ok |-> TRUE]
NoVersion == Ver(0, 0, 0)

\* exec.Command(...).Run(), os.MkdirAll, copyDir, updateImports: the operation
\* is made and logged; it fails if it is the one this run's failure falls on.
Runs(st, c) ==
    [st EXCEPT !.log = Append(@, [c EXCEPT !.ok = Len(st.log) + 1 # st.failAt])]
Failed(st) == st.log # <<>> /\ ~st.log[Len(st.log)].ok

\* No go.mod requirement, no tag.
NoVersions == [m \in {} |-> NoVersion]

\* Before main has started.
NotRun ==
    [pc |-> "idle", dryRun |-> FALSE, isGit |-> FALSE, dirs |-> {}, names |-> {},
     gomod |-> NoVersions, gomodFound |-> NoVersions, failAt |-> 0, existing |-> <<>>, tags |-> <<>>,
     log |-> <<>>, setup |-> <<>>, err |-> ""]

\* return fmt.Errorf("...: %v", err) of UpdateStripeVersions; main then exits.
ReturnError(st, what) == [st EXCEPT !.pc = "failed", !.err = what]

\* The comparison with a tag equal to the current version taken as an update.
OlderOnly(latest, current) ==
    latest.Minor < current.Minor \/ (latest.Minor = current.Minor /\ latest.Patch < current.Patch)

\* latest.Minor < current.Minor || (latest.Minor == current.Minor && latest.Patch <= current.Patch)
AtOrOlder(latest, current) ==
    latest.Minor < current.Minor \/ (latest.Minor = current.Minor /\ latest.Patch <= current.Patch)

\* The loop of updateExistingVersions from index i on, then go mod tidy.
RECURSIVE UpdateFrom(_, _, _, _, _)
UpdateFrom(st, latestVersions, currentVersions, limit, i) ==
    IF i > limit
    THEN IF ~st.dryRun THEN Runs(st, Cmd("go mod tidy", 0, NoVersion)) ELSE st
    ELSE LET v == st.existing[i]
             next == UpdateFrom(st, latestVersions, currentVersions, limit, i + 1)
         IN  IF v.Major \notin DOMAIN latestVersions THEN next
             ELSE IF v.Major \in DOMAIN currentVersions
                     /\ AtOrOlder(latestVersions[v.Major], currentVersions[v.Major]) THEN next
             ELSE IF st.dryRun THEN next
             ELSE LET fetched == Runs(st, Cmd("go get", v.Major, latestVersions[v.Major]))
                  IN  IF Failed(fetched) THEN fetched
                      ELSE UpdateFrom(
                               [fetched EXCEPT !.gomod = MapPut(@, v.Major, latestVersions[v.Major])],
                               latestVersions, currentVersions, limit, i + 1)

\* updateExistingVersions with go mod tidy run in a dry run too.
updateExistingVersionsAlwaysTidy(st) ==
    LET limit == IF Len(st.existing) < UpdateLimit THEN Len(st.existing) ELSE UpdateLimit
        looped == UpdateFrom(st, LatestVersions(NoVersions, st.tags), st.gomod, limit, 1)
    IN  IF st.dryRun THEN Runs(looped, Cmd("go mod tidy", 0, NoVersion)) ELSE looped

updateExistingVersions(st) ==
    LET limit == IF Len(st.existing) < UpdateLimit THEN Len(st.existing) ELSE UpdateLimit
    IN  UpdateFrom(st, LatestVersions(NoVersions, st.tags), st.gomod, limit, 1)

\* for _, v := range existingVersions { if v.Major > maxExistingMajor { ... } }
MaxExistingMajor(existing) ==
    IF existing = <<>> THEN 0
    ELSE CHOOSE m \in {existing[i].Major : i \in DOMAIN existing} :
            \A i \in DOMAIN existing : existing[i].Major <= m

\* The latest tag of each major that has no directory, by major ascending.
NewMajorVersions(existing, allTags) ==
    LET found(v) == \E i \in DOMAIN existing : existing[i].Major = v.Major
        latest == LatestVersions(NoVersions, SelectSeq(allTags, LAMBDA v : ~found(v)))
        descending == SortDescending({latest[m] : m \in DOMAIN latest})
    IN  [i \in 1 .. Len(descending) |-> descending[Len(descending) + 1 - i]]

\* The loop of addNewMajorVersions over the new majors, then go mod tidy:
\* MkdirAll, copyDir from the highest existing version, updateImports, and
\* go get unless go.mod already has the major.
RECURSIVE AddFrom(_, _, _, _)
AddFrom(st, currentVersions, sourceMajor, new) ==
    IF new = <<>>
    THEN IF ~st.dryRun THEN Runs(st, Cmd("go mod tidy", 0, NoVersion)) ELSE st
    ELSE LET v == Head(new)
         IN  IF st.dryRun THEN AddFrom(st, currentVersions, sourceMajor, Tail(new))
             ELSE
             LET made == Runs(st, Cmd("mkdir", v.Major, v))
                 copied == Runs([made EXCEPT !.dirs = @ \cup {v.Major}], Cmd("copy", sourceMajor, v))
                 rewritten == Runs(copied, Cmd("rewrite", v.Major, v))
                 fetched == Runs(rewritten, Cmd("go get", v.Major, v))
             IN  IF Failed(made) THEN made
                 ELSE IF Failed(copied) THEN copied
                 ELSE IF Failed(rewritten) THEN rewritten
                 ELSE IF v.Major \in DOMAIN currentVersions
                      THEN AddFrom(rewritten, currentVersions, sourceMajor, Tail(new))
                 ELSE IF Failed(fetched) THEN fetched
                 ELSE AddFrom([fetched EXCEPT !.gomod = MapPut(@, v.Major, v)],
                              currentVersions, sourceMajor, Tail(new))

addNewMajorVersions(st) ==
    AddFrom(st, st.gomod, MaxExistingMajor(st.existing), NewMajorVersions(st.existing, st.tags))

\* commitChanges: nothing outside a git repository; git add go.mod go.sum,
\* git add v* (its failure is ignored), git commit.
commitChanges(st) ==
    IF ~st.isGit THEN st
    ELSE LET added == Runs(st, Cmd("git add go.mod go.sum", 0, NoVersion))
             addedDirs == Runs(added, Cmd("git add v*", 0, NoVersion))
         IN  IF Failed(added) THEN added
             ELSE Runs(addedDirs, Cmd("git commit", 0, NoVersion))

\* main starts: what the run finds on disk and at GitHub, the mode it runs in,
\* and the command that will fail, if any.
UpdaterMain(dryRun, isGit, dirs, names, gomod, failAt) ==
    /\ upd.pc = "idle"
    /\ upd' = [NotRun EXCEPT !.pc = "setup", !.dryRun = dryRun, !.isGit = isGit, !.dirs = dirs,
                             !.names = names, !.gomod = gomod, !.gomodFound = gomod,
                             !.failAt = failAt]
    /\ UNCHANGED <<events, called, last, regVars, concVars, queueVars, opLast>>

\* checkSetup: GitHub answers or not; a file is written into the current
\* directory and removed. On failure main exits.
CheckSetup(reachable) ==
    /\ upd.pc = "setup"
    /\ upd' = IF ~reachable THEN [upd EXCEPT !.pc = "exited", !.err = "setup check failed"]
              ELSE [upd EXCEPT !.pc = "find",
                               !.setup = <<"write test_write_permission.tmp",
                                           "remove test_write_permission.tmp">>]
    /\ UNCHANGED <<events, called, last, regVars, concVars, queueVars, opLast>>

\* UpdateStripeVersions, findExistingVersions
FindExistingVersions ==
    /\ upd.pc = "find"
    /\ upd' = LET vers == ExistingVersions(upd.dirs)
              IN  IF Len(vers) = 0 THEN ReturnError(upd, "error finding existing versions")
                  ELSE [upd EXCEPT !.pc = "tags", !.existing = vers]
    /\ UNCHANGED <<events, called, last, regVars, concVars, queueVars, opLast>>

\* UpdateStripeVersions, getStripeGoTags
GetStripeGoTags(reachable) ==
    /\ upd.pc = "tags"
    /\ upd' = IF ~reachable THEN ReturnError(upd, "error fetching tags")
              ELSE [upd EXCEPT !.pc = "update", !.tags = ParseTags(upd.names)]
    /\ UNCHANGED <<events, called, last, regVars, concVars, queueVars, opLast>>

\* UpdateStripeVersions, updateExistingVersions
UpdateExistingVersions ==
    /\ upd.pc = "update"
    /\ upd' = LET st == updateExistingVersions(upd)
              IN  IF Failed(st) THEN ReturnError(st, "error updating existing versions")
                  ELSE [st EXCEPT !.pc = "add"]
    /\ UNCHANGED <<events, called, last, regVars, concVars, queueVars, opLast>>

\* UpdateStripeVersions, addNewMajorVersions; a dry run ends here.
AddNewMajorVersions ==
    /\ upd.pc = "add"
    /\ upd' = LET st == addNewMajorVersions(upd)
              IN  IF Failed(st) THEN ReturnError(st, "error adding new major versions")
                  ELSE [st EXCEPT !.pc = IF st.dryRun THEN "done" ELSE "test"]
    /\ UNCHANGED <<events, called, last, regVars, concVars, queueVars, opLast>>

\* runTests with its result ignored: the run goes on to the commit.
RunTestsIgnored ==
    /\ upd.pc = "test"
    /\ upd' = [Runs(upd, Cmd("go test", 0, NoVersion)) EXCEPT !.pc = "commit"]
    /\ UNCHANGED <<events, called, last, regVars, concVars, queueVars, opLast>>

\* UpdateStripeVersions, runTests: go test ./...
RunTests ==
    /\ upd.pc = "test"
    /\ upd' = LET st == Runs(upd, Cmd("go test", 0, NoVersion))
              IN  IF Failed(st) THEN ReturnError(st, "tests failed after updating versions")
                  ELSE [st EXCEPT !.pc = "commit"]
    /\ UNCHANGED <<events, called, last, regVars, concVars, queueVars, opLast>>

\* UpdateStripeVersions, commitChanges
CommitChanges ==
    /\ upd.pc = "commit"
    /\ upd' = LET st == commitChanges(upd)
              IN  IF Failed(st) THEN ReturnError(st, "failed to commit changes")
                  ELSE [st EXCEPT !.pc = "done"]
    /\ UNCHANGED <<events, called, last, regVars, concVars, queueVars, opLast>>

-----------------------------------------------------------------------------
(* Properties of the registry *)

\* The handler most recently passed to RegisterHandler whose Version() is v.
LastRegistered(log, v) ==
    LET at == {i \in 1 .. Len(log) : Version(log[i]) = v}
    IN  IF at = {} THEN NilHandler
        ELSE log[CHOOSE i \in at : \A j \in at : j <= i]

RegisteredVersions == {Version(regLog[i]) : i \in 1 .. Len(regLog)}

\* C1: after any sequence of RegisterHandler calls, GetHandler(v) is the handler
\* most recently registered whose Version() is v: a call stores its handler
\* under the handler's version, replaces what was there, and leaves the other
\* versions' entries alone.
C1_LookupIsLastRegistered ==
    \A v \in Versions : GetHandler(v) = LastRegistered(regLog, v)

\* A second handler of one version has replaced the first, next to an entry of
\* another version.
C1_Witness ==
    \E i, j \in 1 .. Len(regLog) :
        /\ i < j
        /\ Version(regLog[i]) = Version(regLog[j])
        /\ regLog[i] # regLog[j]
        /\ GetHandler(Version(regLog[j])) = regLog[j]
        /\ \E v \in Versions \ {Version(regLog[j])} : GetHandler(v) # NilHandler

\* C2: GetHandler(v) is nil for every version no handler was registered for,
\* and the handlers it returns for two different versions are two different
\* instances, each the one registered under its version.
C2_NotFoundAndDistinct ==
    /\ \A v \in Versions \ RegisteredVersions : GetHandler(v) = NilHandler
    /\ \A v \in RegisteredVersions :
          /\ GetHandler(v) # NilHandler
          /\ Version(GetHandler(v)) = v
          /\ \E i \in 1 .. Len(regLog) : regLog[i] = GetHandler(v)
    /\ \A v, w \in RegisteredVersions : v # w => GetHandler(v) # GetHandler(w)
    /\ got[1] # Nil /\ got[1] \notin RegisteredVersions => got[2] = NilHandler

\* Only "v74" and "v82" are registered, and the lookup of "v80" has returned nil.
C2_Witness ==
    /\ RegisteredVersions = {"v74", "v82"}
    /\ got = <<"v80", NilHandler>>
    /\ GetHandler("v74") # NilHandler
    /\ GetHandler("v82") # NilHandler

\* C3: once the init function of a version package has run, GetHandler of that
\* package's version returns a non-nil handler of that version; and caller code
\* runs only after every linked package's init function.
C3_SelfRegistered ==
    /\ \A p \in initDone :
          /\ GetHandler(p) # NilHandler
          /\ Version(GetHandler(p)) = p
    /\ phase = "main" => initDone = linked

\* Caller code has looked up "v80" and got the handler its package's init made.
C3_Witness ==
    /\ phase = "main"
    /\ initDone = PkgVersions
    /\ dynRegs = 0
    /\ got = <<"v80", NewHandler("v80")>>

\* C4: the registry only grows: a version whose lookup is non-nil stays
\* non-nil in every later step.
C4_RegistryOnlyGrows ==
    [][\A v \in Versions : GetHandler(v) # NilHandler => GetHandler(v)' # NilHandler]_vars

\* A version was looked up, then registered again, and its lookup is still non-nil.
C4_Witness ==
    \E v \in Versions :
        /\ got[1] = v
        /\ got[2] # NilHandler
        /\ GetHandler(v) # NilHandler
        /\ GetHandler(v) # got[2]

\* C5: when RegisterHandler is called only by init functions, no GetHandler
\* call overlaps a RegisterHandler call and no two RegisterHandler calls
\* overlap: the lookups of the goroutines race with nothing.
C5_NoOverlapUnderDiscipline ==
    ~outsideInit =>
        /\ ~Overlap(Writers, Readers)
        /\ fault = "none"
        /\ Readers # {} => phase = "main" /\ initDone = linked
        /\ got[1] # Nil => got[2] = GetHandler(got[1])

\* Two goroutines are inside GetHandler at once, on a registry that only init
\* functions have written.
C5_Witness ==
    /\ ~outsideInit
    /\ initDone = PkgVersions
    /\ Readers = Goroutines
    /\ got[2] # NilHandler

-----------------------------------------------------------------------------
(* Properties of HandleWebhook *)

\* The kinds the handler of the last call has a case arm for.
KnownKinds(handler) == IF handler = "callback-v74" THEN QueueKinds ELSE SyncKinds

IsSync(handler) == handler \in {"v74", "v79"}

\* The events the last call delivered: the one it returned, or those it sent.
Delivered(call) ==
    IF call.out.event # NilPtr THEN <<call.out.event[1]>> ELSE call.out.sent

\* C6: when the signature does not verify, HandleWebhook returns an error and
\* produces no event: the synchronous handlers return a nil event, the channel
\* handler leaves the channel as it was, and only the verify step has run.
C6_VerifyFailureRejects ==
    last.handler # "none" /\ ~last.payload.sig =>
        /\ last.out.err = ErrSignature
        /\ ~last.out.panic
        /\ last.out.event = NilPtr
        /\ last.out.sent = <<>>
        /\ last.after = last.before
        /\ last.out.steps = <<"verify">>

\* The channel handler has rejected a payload while an earlier event was queued.
C6_Witness ==
    /\ last.handler = "callback-v74"
    /\ ~last.payload.sig
    /\ last.before # <<>>
    /\ events = last.before

\* C7 as claimed: a verified payload of a kind the handler does not know yields
\* an unrecognized-event error for the caller, in both variants.
C7_UnknownKindIsAnErrorEverywhere ==
    /\ last.handler # "none"
    /\ last.payload.sig
    /\ last.payload.kind \notin KnownKinds(last.handler)
    => last.out.err = ErrUnknownEventType(last.payload.kind)

\* C7, amended: for such a payload the synchronous handlers return a nil event
\* and the unrecognized-event error; the channel handler returns nil (no
\* error) and sends nothing.
C7_UnknownKindPerVariant ==
    /\ last.handler # "none"
    /\ last.payload.sig
    /\ last.payload.kind \notin KnownKinds(last.handler)
    => /\ ~last.out.panic
       /\ last.out.event = NilPtr
       /\ last.out.sent = <<>>
       /\ last.out.steps = <<"verify", "classify">>
       /\ IsSync(last.handler) => last.out.err = ErrUnknownEventType(last.payload.kind)
       /\ ~IsSync(last.handler) => last.out.err = NoError /\ last.after = last.before

\* A synchronous handler has returned the unrecognized-event error.
C7_Witness ==
    /\ last.handler = "v79"
    /\ last.payload.sig
    /\ last.payload.kind = "customer.created"
    /\ last.out.err = ErrUnknownEventType("customer.created")

\* C8: a call of the channel handler on a verified payload of a kind it does
\* not know leaves the channel as it was, in length and in content.
C8_UnknownKindEnqueuesNothing ==
    /\ last.handler = "callback-v74"
    /\ last.payload.sig
    /\ last.payload.kind \notin QueueKinds
    => /\ Len(last.after) = Len(last.before)
       /\ last.after = last.before
       /\ last.out.sent = <<>>

\* Such a call was made while an event was queued, and the event is still there.
C8_Witness ==
    /\ last.handler = "callback-v74"
    /\ last.payload.sig
    /\ last.payload.kind = "customer.created"
    /\ Len(last.before) = 1
    /\ events = last.before

\* C9: when the object of a verified event of a known kind does not decode,
\* HandleWebhook returns the decode error and delivers nothing: a nil event
\* from the synchronous handlers, an unchanged channel from the channel handler.
C9_DecodeFailureDeliversNothing ==
    /\ last.handler # "none"
    /\ last.payload.sig
    /\ last.payload.kind \in KnownKinds(last.handler)
    /\ ~last.payload.decodable
    => /\ last.out.err = ErrDecode
       /\ ~last.out.panic
       /\ last.out.event = NilPtr
       /\ last.out.sent = <<>>
       /\ last.after = last.before
       /\ last.out.steps = <<"verify", "classify", "decode">>

\* The channel handler has failed to decode an invoice while an event was queued.
C9_Witness ==
    /\ last.handler = "callback-v74"
    /\ last.payload.sig
    /\ last.payload.kind = "invoice.created"
    /\ ~last.payload.decodable
    /\ last.out.err = ErrDecode
    /\ last.before # <<>>

\* C10: every event HandleWebhook delivers has the Type of the payload's kind
\* and a made (non-nil) Metadata map holding exactly the key/value pairs of the
\* payload object's metadata; a payload of a known kind that verifies, decodes
\* and projects delivers one event.
C10_TypeAndMetadataCopied ==
    /\ \A i \in 1 .. Len(Delivered(last)) :
          LET e == Delivered(last)[i]
              m == last.payload.obj.Metadata
          IN  /\ last.payload.sig
              /\ last.payload.kind \in KnownKinds(last.handler)
              /\ e.Type = last.payload.kind
              /\ ~e.Metadata.nil
              /\ DOMAIN e.Metadata.kv = DOMAIN m.kv
              /\ \A k \in DOMAIN m.kv : e.Metadata.kv[k] = m.kv[k]
    /\ \A i \in 1 .. Len(events) : ~events[i].Metadata.nil
    /\ ( /\ last.handler # "none"
         /\ last.payload.sig
         /\ last.payload.kind \in KnownKinds(last.handler)
         /\ last.payload.decodable
         /\ ~last.out.panic )
       => Len(Delivered(last)) = 1 /\ last.out.err = NoError
    /\ last.handler = "callback-v74" => last.after = last.before \o last.out.sent

\* A subscription event with three metadata pairs has been delivered on the channel.
C10_Witness ==
    /\ last.handler = "callback-v74"
    /\ last.payload.kind = "customer.subscription.deleted"
    /\ last.payload.obj.Metadata = FullMeta
    /\ Len(events) = 2
    /\ events[2].Type = "customer.subscription.deleted"
    /\ events[2].Metadata = FullMeta

\* An event of a payload without metadata has been returned with an empty, made map.
C10_WitnessNoMetadata ==
    /\ last.handler = "v74"
    /\ last.payload.kind = "refund.created"
    /\ last.payload.obj.Metadata = NilMap
    /\ last.out.event # NilPtr
    /\ last.out.event[1].Metadata = MakeMap

\* The five last-payment-error fields of an event, in the order of the struct.
ErrorFields(e) ==
    <<e.LastPaymentErrorCode, e.LastPaymentErrorMsg, e.LastPaymentErrorDeclineCode,
      e.LastPaymentErrorPaymentMethodID, e.LastPaymentErrorChargeID>>

NoErrorFields == <<"", "", "", "", "">>

\* The fields of the payload's error object, as the vendor sent them.
SentErrorFields(lpe) ==
    <<lpe.Code, lpe.Msg, lpe.DeclineCode,
      IF lpe.PaymentMethod # NilPtr THEN lpe.PaymentMethod[1].ID ELSE "", lpe.ChargeID>>

\* The last call was made on a payment-intent payload that verifies and decodes.
PaymentIntentCall ==
    /\ last.handler # "none"
    /\ last.payload.sig
    /\ last.payload.decodable
    /\ last.payload.kind \in PaymentIntentKinds

\* C11 as claimed: a payment-intent payload always delivers one event; for
\* payment_intent.payment_failed with an error object the five error fields
\* are those of the object, and in every other case they are empty.
C11_ErrorFieldsCopied ==
    PaymentIntentCall =>
        /\ Len(Delivered(last)) = 1
        /\ LET e == Delivered(last)[1]
               lpe == last.payload.obj.LastPaymentError
           IN  IF last.payload.kind = "payment_intent.payment_failed" /\ lpe # NilPtr
               THEN ErrorFields(e) = SentErrorFields(lpe[1])
               ELSE ErrorFields(e) = NoErrorFields

\* C11, what the code does: as claimed, except that LastPaymentErrorMsg is
\* taken from the object's Err, which decoding leaves nil, and so stays empty
\* whatever message the object carries.
C11_ErrorFieldsButMsg ==
    PaymentIntentCall =>
        /\ Len(Delivered(last)) = 1
        /\ LET e == Delivered(last)[1]
               lpe == last.payload.obj.LastPaymentError
           IN  IF last.payload.kind = "payment_intent.payment_failed" /\ lpe # NilPtr
               THEN ErrorFields(e) = [SentErrorFields(lpe[1]) EXCEPT ![2] = ""]
               ELSE ErrorFields(e) = NoErrorFields

\* A failed payment with a message has been delivered with an empty LastPaymentErrorMsg.
C11_Witness ==
    /\ PaymentIntentCall
    /\ last.payload.kind = "payment_intent.payment_failed"
    /\ last.payload.obj.LastPaymentError # NilPtr
    /\ last.payload.obj.LastPaymentError[1].Msg # ""
    /\ Len(Delivered(last)) = 1
    /\ Delivered(last)[1].LastPaymentErrorCode = "card_declined"
    /\ Delivered(last)[1].LastPaymentErrorMsg = ""

\* The last call was made on an invoice payload that verifies and decodes.
InvoiceCall ==
    /\ last.handler # "none"
    /\ last.payload.sig
    /\ last.payload.decodable
    /\ last.payload.kind \in InvoiceKinds

\* The line items of an invoice payload, in the order sent; none without a lines object.
SentLines(inv) == IF inv.Lines = NilPtr THEN <<>> ELSE inv.Lines[1].Data

\* C12: the event delivered for an invoice payload with N line items has N
\* InvoiceLines, the i-th made of the i-th line's ID, amount, currency,
\* description and subscription ID; without a lines object it has none.
C12_InvoiceLinesInOrder ==
    InvoiceCall =>
        \A j \in 1 .. Len(Delivered(last)) :
            LET e == Delivered(last)[j]
                sent == SentLines(last.payload.obj)
            IN  /\ Len(e.InvoiceLines) = Len(sent)
                /\ \A i \in 1 .. Len(sent) :
                      e.InvoiceLines[i] =
                          [ID |-> sent[i].ID, Amount |-> sent[i].Amount,
                           Currency |-> sent[i].Currency,
                           Description |-> sent[i].Description,
                           SubscriptionID |->
                              IF sent[i].Subscription = NilPtr THEN ""
                              ELSE sent[i].Subscription[1]]
                /\ last.payload.obj.Lines = NilPtr => e.InvoiceLines = <<>>

\* An invoice with MaxLines line items has been delivered with its lines in order.
C12_Witness ==
    /\ InvoiceCall
    /\ Len(SentLines(last.payload.obj)) = MaxLines
    /\ Len(Delivered(last)) = 1
    /\ Len(Delivered(last)[1].InvoiceLines) = MaxLines
    /\ Delivered(last)[1].InvoiceLines[1].ID = "il_1"
    /\ Delivered(last)[1].InvoiceLines[2].ID = "il_2"

\* The payload families, and the family of a kind.
Families == {"setup-intent", "payment-intent", "subscription", "invoice", "refund"}

FamilyOf(kind) ==
    IF kind \in SetupIntentKinds THEN "setup-intent"
    ELSE IF kind \in PaymentIntentKinds THEN "payment-intent"
    ELSE IF kind \in SubscriptionKinds THEN "subscription"
    ELSE IF kind \in InvoiceKinds THEN "invoice"
    ELSE "refund"

\* The field that names the object of a family.
IdentityField(family) ==
    CASE family = "setup-intent" -> "SetupIntentID"
      [] family = "payment-intent" -> "PaymentIntentID"
      [] family = "subscription" -> "SubscriptionID"
      [] family = "invoice" -> "InvoiceID"
      [] family = "refund" -> "RefundID"

\* The fields of CallbackEvent by the group the struct declares them in.
DeclaredFields(family) ==
    CASE family = "setup-intent" ->
            {"SetupIntentID", "PaymentMethodID", "CardBrand", "CardExpMonth", "CardExpYear",
             "CardLast4"}
      [] family = "payment-intent" ->
            {"PaymentIntentID", "Amount", "AmountCapturable", "Status",
             "LastPaymentErrorCode", "LastPaymentErrorMsg", "LastPaymentErrorDeclineCode",
             "LastPaymentErrorPaymentMethodID", "LastPaymentErrorChargeID"}
      [] family = "subscription" ->
            {"SubscriptionID", "CustomerID", "CurrentPeriodEnd", "CancelAtPeriodEnd",
             "CanceledAt", "Created"}
      [] family = "invoice" -> {"InvoiceID", "InvoiceLines"}
      [] family = "refund" ->
            {"RefundID", "RefundAmount", "RefundReason", "RefundStatus", "ChargeID", "Currency"}

FamilyFields == UNION {DeclaredFields(f) : f \in Families}

\* The fields of other groups that the case arm of a family assigns as well.
BorrowedFields(family) ==
    CASE family = "payment-intent" -> {"PaymentMethodID"}
      [] family = "subscription" -> {"Status"}
      [] family = "invoice" -> {"CustomerID", "Amount", "Status", "Created"}
      [] OTHER -> {}

RequiredMetadata == {"SPID", "AccountType", "AccountExternalID"}

HasRequiredMetadata(m) == ~m.nil /\ RequiredMetadata \subseteq DOMAIN m.kv

\* C16 as claimed: the channel handler sends an event only when the payload's
\* metadata has SPID, AccountType and AccountExternalID; a payload lacking
\* one of them puts nothing in the channel.
C16_OnlyWithRequiredMetadata ==
    last.handler = "callback-v74" =>
        /\ \A i \in 1 .. Len(last.out.sent) : HasRequiredMetadata(last.out.sent[i].Metadata)
        /\ (last.payload.decodable /\ ~HasRequiredMetadata(last.payload.obj.Metadata))
              => last.after = last.before

\* C16, what the code does: the channel handler never looks at the metadata;
\* whether a verified payload of a known kind that decodes is sent depends
\* on nothing but the projection going through.
C16_SentWhateverTheMetadata ==
    /\ last.handler = "callback-v74"
    /\ last.payload.sig
    /\ last.payload.kind \in QueueKinds
    /\ last.payload.decodable
    => \/ last.out.panic
       \/ /\ Len(last.out.sent) = 1
          /\ last.after = Append(last.before, last.out.sent[1])
          /\ last.out.sent[1].Metadata.kv = last.payload.obj.Metadata.kv
          /\ last.out.err = NoError

\* An event of a payload without any metadata has been put in the channel.
C16_Witness ==
    /\ last.handler = "callback-v74"
    /\ last.payload.kind = "customer.subscription.created"
    /\ last.payload.obj.Metadata = NilMap
    /\ Len(last.out.sent) = 1
    /\ Len(events) = Len(last.before) + 1
    /\ ~HasRequiredMetadata(events[Len(events)].Metadata)

\* The steps of the normalizer, in the order of the code.
StepOrder == <<"verify", "classify", "decode", "project", "deliver">>

\* The step at which a call on the payload stops short, or "" if at none.
RejectedAt(handler, payload) ==
    IF ~payload.sig THEN "verify"
    ELSE IF payload.kind \notin KnownKinds(handler) THEN "classify"
    ELSE IF ~payload.decodable THEN "decode"
    ELSE ""

\* C17: the steps of a call are an initial part of verify, classify, decode,
\* project, deliver, each at most once; an event is delivered exactly when all
\* five ran, which needs the payload to verify, to be of a known kind and to
\* decode; a call that fails at verify, classify or decode ends with that
\* step, delivers nothing and runs no step again.
C17_StepsInOrder ==
    last.handler # "none" =>
        LET steps == last.out.steps
            stop == RejectedAt(last.handler, last.payload)
        IN  /\ Len(steps) \in 1 .. Len(StepOrder)
            /\ steps = SubSeq(StepOrder, 1, Len(steps))
            /\ (Delivered(last) # <<>>) <=> (steps = StepOrder)
            /\ steps = StepOrder => stop = "" /\ last.out.err = NoError /\ ~last.out.panic
            /\ stop # "" =>
                  /\ steps[Len(steps)] = stop
                  /\ Delivered(last) = <<>>
                  /\ last.after = last.before
            /\ stop = "" => Len(steps) >= 4

\* The channel handler has run all five steps and put the event in the channel.
C17_Witness ==
    /\ last.handler = "callback-v74"
    /\ last.out.steps = StepOrder
    /\ last.payload.kind = "setup_intent.succeeded"
    /\ Len(last.after) = Len(last.before) + 1
    /\ events = last.after

\* A call has stopped at the decode step with an earlier event still queued.
C17_WitnessRejected ==
    /\ last.handler = "callback-v74"
    /\ RejectedAt(last.handler, last.payload) = "decode"
    /\ last.out.steps = <<"verify", "classify", "decode">>
    /\ last.before # <<>>
    /\ events = last.before

\* The call returned an event and no error, or an error and no event.
OneOfEventOrError(out) ==
    \/ out.event # NilPtr /\ out.err = NoError
    \/ out.event = NilPtr /\ out.err # NoError

\* The nested object whose ID the arm of the kind reads without a nil check is absent.
ReadsNilPointer(payload) ==
    \/ payload.kind \in SubscriptionKinds \cup InvoiceKinds /\ payload.obj.Customer = NilPtr
    \/ payload.kind \in RefundKinds /\ payload.obj.Charge = NilPtr

\* C18 as claimed: every call of a synchronous HandleWebhook returns, with
\* either an event and a nil error or a nil event and an error, and touches
\* nothing that calls share (the channel is as it was).
C18_ReturnsEventOrError ==
    IsSync(last.handler) =>
        /\ ~last.out.panic
        /\ OneOfEventOrError(last.out)
        /\ last.out.sent = <<>>
        /\ last.after = last.before

\* C18, what the code does: a call that returns does so as claimed, and
\* touches nothing that calls share; but a call on a payload that verifies and
\* decodes with the customer (subscription, invoice) or the charge (refund)
\* absent panics on the nil pointer and returns neither an event nor an error.
C18_EventOrErrorUnlessPanic ==
    IsSync(last.handler) =>
        /\ last.out.sent = <<>>
        /\ last.after = last.before
        /\ ~last.out.panic => OneOfEventOrError(last.out)
        /\ last.out.panic <=>
              /\ last.payload.sig
              /\ last.payload.decodable
              /\ ReadsNilPointer(last.payload)
        /\ last.out.panic => last.out.event = NilPtr /\ last.out.err = NoError

\* The v79 handler has panicked on a refund whose charge is absent.
C18_Witness ==
    /\ last.handler = "v79"
    /\ last.payload.kind = "refund.created"
    /\ last.payload.sig
    /\ last.payload.decodable
    /\ last.payload.obj.Charge = NilPtr
    /\ last.out.panic
    /\ last.out.event = NilPtr
    /\ last.out.err = NoError

-----------------------------------------------------------------------------
(* Properties that relate the webhook handlers to one another *)

\* What the synchronous handler of the other version does with the payload.
OtherSync(handler, payload) ==
    IF handler = "v74" THEN HandlerV79HandleWebhook(payload) ELSE HandlerV74HandleWebhook(payload)

\* C27: for the same verified payload the synchronous HandleWebhook of v74
\* and of v79 reach the same outcome, event or error, and an event they
\* return is the same in Type, Metadata and every other field.
C27_SyncVersionsAgree ==
    (IsSync(last.handler) /\ last.payload.sig) =>
        LET other == OtherSync(last.handler, last.payload)
        IN  /\ other.err = last.out.err
            /\ other.panic = last.out.panic
            /\ (other.event = NilPtr) = (last.out.event = NilPtr)
            /\ last.out.event # NilPtr =>
                  /\ other.event[1].Type = last.out.event[1].Type
                  /\ other.event[1].Metadata = last.out.event[1].Metadata
                  /\ other.event[1] = last.out.event[1]

\* The v79 handler has returned an invoice event whose first line carries its
\* subscription, decoded from a pointer there and from a string in v74.
C27_Witness ==
    /\ last.handler = "v79"
    /\ last.payload.sig
    /\ last.payload.kind \in InvoiceKinds
    /\ last.out.event # NilPtr
    /\ Len(last.out.event[1].InvoiceLines) > 0
    /\ last.out.event[1].InvoiceLines[1].SubscriptionID # ""
    /\ HandlerV74HandleWebhook(last.payload).event = last.out.event

\* The creation time an event carries: CreatedAt, or Created in seconds.
CreationOf(e) == IF e.CreatedAt.set THEN e.CreatedAt.unix ELSE e.Created

\* Two events are the same but for the field the creation time is stored in.
SameButCreationField(a, b) ==
    /\ [a EXCEPT !.Created = 0, !.CreatedAt = ZeroTime] = [b EXCEPT !.Created = 0, !.CreatedAt = ZeroTime]
    /\ CreationOf(a) = CreationOf(b)

\* The last call was made on a verified payload through a handler of v74, and
\* what each of the two v74 handlers does with that payload.
V74Call == last.handler \in {"v74", "callback-v74"} /\ last.payload.sig
QueueOut == IF last.handler = "callback-v74" THEN last.out ELSE CallbackHandlerV74HandleWebhook(last.payload)
SyncOut == IF last.handler = "v74" THEN last.out ELSE HandlerV74HandleWebhook(last.payload)

\* C28 as stated: for the same verified payload the v74 queue variant
\* enqueues an event if and only if the v74 synchronous variant returns one,
\* for every known kind including the refund kinds, and the two events have
\* the same Type, Metadata and kind-specific fields.
C28_ShapesAgree ==
    V74Call =>
        /\ (QueueOut.sent # <<>>) = (SyncOut.event # NilPtr)
        /\ QueueOut.sent # <<>> =>
              /\ Len(QueueOut.sent) = 1
              /\ SameButCreationField(QueueOut.sent[1], SyncOut.event[1])

\* C28, what the code does: for the kinds the queue variant knows the two
\* agree, the creation time being in Created in one and in CreatedAt in the
\* other; for the refund kinds the queue variant enqueues nothing and returns
\* nil whatever the synchronous variant does.
C28_ShapesAgreeButOnRefunds ==
    V74Call =>
        /\ last.payload.kind \notin RefundKinds =>
              /\ (QueueOut.sent # <<>>) = (SyncOut.event # NilPtr)
              /\ QueueOut.err = SyncOut.err \/ last.payload.kind \notin QueueKinds
              /\ QueueOut.panic = SyncOut.panic
              /\ QueueOut.sent # <<>> =>
                    /\ Len(QueueOut.sent) = 1
                    /\ SameButCreationField(QueueOut.sent[1], SyncOut.event[1])
        /\ last.payload.kind \in RefundKinds =>
              /\ QueueOut.sent = <<>>
              /\ QueueOut.err = NoError
              /\ ~QueueOut.panic

\* The queue variant has returned nil with nothing enqueued on a refund for
\* which the synchronous variant returns an event.
C28_Witness ==
    /\ last.handler = "callback-v74"
    /\ last.payload.sig /\ last.payload.decodable
    /\ last.payload.kind \in RefundKinds
    /\ last.out.sent = <<>>
    /\ last.after = last.before
    /\ last.out.err = NoError
    /\ HandlerV74HandleWebhook(last.payload).event # NilPtr

\* The last call was made on a payload that verifies, is of a kind its handler
\* knows, and decodes.
WellFormedCall ==
    /\ last.handler # "none"
    /\ last.payload.sig
    /\ last.payload.decodable
    /\ last.payload.kind \in (IF IsSync(last.handler) THEN SyncKinds ELSE QueueKinds)

\* C29 as stated: every call on a verified, known-kind, decodable payload ends
\* by delivering an event or returning an error, also when the customer of a
\* subscription or invoice or the charge of a refund is absent; no such input
\* makes the call abort.
C29_NeverAborts ==
    WellFormedCall =>
        /\ ~last.out.panic
        /\ Delivered(last) # <<>> \/ last.out.err # NoError

\* C29, what the code does: such a call delivers an event unless the nested
\* object is absent, and then it aborts on the nil pointer: no event is
\* delivered and no error returned.
C29_AbortsOnAbsentObject ==
    WellFormedCall =>
        /\ last.out.panic = ReadsNilPointer(last.payload)
        /\ ~last.out.panic => Len(Delivered(last)) = 1 /\ last.out.err = NoError
        /\ last.out.panic => Delivered(last) = <<>> /\ last.out.err = NoError /\ last.after = last.before

\* The queue variant has aborted on a subscription without a customer, with
\* nothing enqueued.
C29_Witness ==
    /\ last.handler = "callback-v74"
    /\ WellFormedCall
    /\ last.payload.kind \in SubscriptionKinds
    /\ last.payload.obj.Customer = NilPtr
    /\ last.out.panic
    /\ last.out.sent = <<>>
    /\ last.after = last.before

-----------------------------------------------------------------------------
(* Properties of the channel of CallbackHandlerV74 *)

\* C14: the channel never holds more than 100 events. While no event has been
\* received, a send finds room and its call returns without waiting as long
\* as fewer than 100 events are in the channel, so the first 100 calls
\* return; the call after them waits in its send, and a call that has waited
\* returns only after at least one event was received.
C14_HundredThenBlock ==
    /\ Len(events) <= EventsCap
    /\ \A p \in Producers :
          /\ prod[p].pc = "send" /\ Len(events) < EventsCap => ENABLED ProducerSend(p)
          /\ prod[p].pc = "send" /\ Len(events) < EventsCap => ~ENABLED ProducerPark(p)
          /\ prod[p].pc \in {"send", "blocked"} /\ Len(events) = EventsCap
                => ~ENABLED ProducerSend(p)
          /\ prod[p].pc = "blocked" /\ Len(recvd) = prod[p].parkedAt => Len(events) = EventsCap
    /\ recvd = <<>> => Len(order) <= EventsCap /\ ~qret.parked
    /\ qret.parked => qret.sent /\ qret.drained

\* With nothing received, 100 calls have returned without waiting and the
\* next one waits in its send.
C14_Witness ==
    /\ recvd = <<>>
    /\ Len(events) = EventsCap
    /\ Len(order) = EventsCap
    /\ qret.sent /\ ~qret.parked
    /\ \E p \in Producers : prod[p].pc = "blocked"

\* The call that waited has returned, after one event was received.
C14_WitnessReleased ==
    /\ qret.sent /\ qret.parked /\ qret.drained
    /\ Len(order) = EventsCap + 1
    /\ Len(recvd) = 1

\* C15: the channel is first-in first-out and neither loses nor repeats an
\* event under concurrent producers: the events sent so far are, in the order
\* they went in, those received followed by those still in the channel; every
\* call that has reached its send has its event in that order exactly once
\* or is still sending it; and the consumer has received a prefix of the order.
C15_FifoNoLossNoDuplication ==
    /\ order = recvd \o TagsOf(events)
    /\ recvd = SubSeq(order, 1, Len(recvd))
    /\ LET sent == {order[i] : i \in 1 .. Len(order)}
           sending == {Tag(prod[p].evt) : p \in {q \in Producers : prod[q].pc # "idle"}}
       IN  /\ Cardinality(sent) = Len(order)
           /\ sent \cap sending = {}
           /\ sent \cup sending = 1 .. started
           /\ Cardinality(sending) = Cardinality({q \in Producers : prod[q].pc # "idle"})
    /\ \A i \in 1 .. Len(events) : events[i] = [events[1] EXCEPT !.Amount = Tag(events[i])]

\* Two requests in flight together sent their events in the other order than
\* they came in, one of them after waiting, and the consumer has received both
\* in the order sent.
C15_Witness ==
    /\ Len(recvd) = EventsCap + 1
    /\ recvd[EventsCap] = EventsCap + 1
    /\ recvd[EventsCap + 1] = EventsCap
    /\ qret.sent /\ qret.parked

\* C19: whatever calls of HandleWebhook have been made and however they
\* ended, the handler's channel is the one its constructor made and is open,
\* and every call of Events() has returned that channel.
C19_ChannelNeverClosed ==
    /\ ~ch.closed
    /\ ch = MadeChannel
    /\ evRet # 0 => evRet = ch.id

\* Events() has returned the channel after calls that sent events and a call
\* that failed, with a producer waiting on the full channel.
C19_Witness ==
    /\ evRet = ch.id
    /\ ~ch.closed
    /\ Len(events) = EventsCap
    /\ qret.returned /\ qret.err = ErrSignature
    /\ \E p \in Producers : prod[p].pc = "blocked"

-----------------------------------------------------------------------------
(* Properties of the adapters *)

\* The last adapter call made its SDK call and the SDK call failed.
VendorCallFailed ==
    /\ opLast.op # ""
    /\ Len(opLast.out.calls) > 0
    /\ opLast.reply.err # NoError

\* C20: an adapter operation invokes its vendor call at most once per call;
\* when the vendor call fails it returns the vendor's error unchanged with a
\* nil result; it never retries, and never returns both a result and an
\* error.
C20_OneVendorCallErrorUnchanged ==
    /\ Len(opLast.out.calls) <= 1
    /\ VendorCallFailed =>
          /\ ~opLast.out.panic
          /\ opLast.out.err = opLast.reply.err
          /\ opLast.out.result = NilPtr
    /\ opLast.out.err # NoError => opLast.out.err = opLast.reply.err
    /\ ~(opLast.out.result # NilPtr /\ opLast.out.err # NoError)

\* ListSubscriptions whose iterator yielded two subscriptions and then failed
\* has returned the iterator's error and a nil slice after one SDK call.
C20_Witness ==
    /\ opLast.op = "ListSubscriptions"
    /\ Len(opLast.reply.items) = 2
    /\ opLast.reply.err \in VendorErrors
    /\ Len(opLast.out.calls) = 1
    /\ opLast.out.err = opLast.reply.err
    /\ opLast.out.result = NilPtr

\* The SDK call the last adapter operation made (it made one).
TheCall == opLast.out.calls[1]

\* The request that ends a subscription now: subscription.Cancel, which
\* CancelSubscription makes.
CancelsNow(call) == call.fn = "subscription.Cancel"

\* The request that ends a subscription at the end of its period:
\* subscription.Update with CancelAtPeriodEnd true, which UpdateSubscription makes.
DefersToPeriodEnd(call) ==
    /\ call.fn = "subscription.Update"
    /\ call.params # NilPtr
    /\ call.params[1].CancelAtPeriodEnd

\* C21 as stated: CancelSubscription cancels at the end of the current period
\* when atPeriodEnd is true and immediately when atPeriodEnd is false.
C21_CancelsWhenAsked ==
    opLast.op = "CancelSubscription" =>
        /\ Len(opLast.out.calls) = 1
        /\ opLast.args[2] => DefersToPeriodEnd(TheCall)
        /\ ~opLast.args[2] => CancelsNow(TheCall)

\* C21, what the code does: CancelSubscription makes the immediate cancel call
\* whatever atPeriodEnd is; atPeriodEnd only switches the final invoice and
\* the proration off.
C21_AlwaysCancelsNow ==
    opLast.op = "CancelSubscription" =>
        /\ Len(opLast.out.calls) = 1
        /\ CancelsNow(TheCall)
        /\ ~DefersToPeriodEnd(TheCall)
        /\ TheCall.id = opLast.args[1]
        /\ TheCall.params = Ptr([InvoiceNow |-> ~opLast.args[2], Prorate |-> ~opLast.args[2]])

\* CancelSubscription with atPeriodEnd true has made the immediate cancel call
\* and returned the subscription the vendor reports as canceled.
C21_Witness ==
    /\ opLast.op = "CancelSubscription"
    /\ opLast.args[2]
    /\ CancelsNow(TheCall)
    /\ opLast.out.err = NoError
    /\ opLast.out.result # NilPtr
    /\ opLast.out.result[1].Status = "canceled"

\* C22: UpdateSubscription with an empty newPriceID sends no price item and
\* only the cancel-at-period-end flag; with a non-empty newPriceID it sends
\* exactly that price.
C22_PriceSentOnlyWhenGiven ==
    opLast.op = "UpdateSubscription" =>
        /\ Len(opLast.out.calls) = 1
        /\ TheCall.fn = "subscription.Update"
        /\ TheCall.id = opLast.args[1]
        /\ DOMAIN TheCall.params[1] = {"CancelAtPeriodEnd", "Items"}
        /\ TheCall.params[1].CancelAtPeriodEnd = opLast.args[2]
        /\ opLast.args[3] = "" => TheCall.params[1].Items = <<>>
        /\ opLast.args[3] # "" => TheCall.params[1].Items = <<[Price |-> opLast.args[3]]>>

\* UpdateSubscription with cancelAtPeriodEnd true and no new price has sent the
\* flag and no item, and returned the vendor's subscription.
C22_Witness ==
    /\ opLast.op = "UpdateSubscription"
    /\ opLast.args[2]
    /\ opLast.args[3] = ""
    /\ TheCall.params[1].Items = <<>>
    /\ TheCall.params[1].CancelAtPeriodEnd
    /\ opLast.out.err = NoError
    /\ opLast.out.result # NilPtr

\* The adapter operations that return subscriptions.
SubscriptionOps == {"CreateSubscription", "ListSubscriptions", "UpdateSubscription", "CancelSubscription"}

\* The vendor's subscriptions in the reply of the last adapter call and the
\* Subscription structs the call returned for them, in order.
RepliedSubscriptions ==
    IF opLast.op = "ListSubscriptions" THEN opLast.reply.items ELSE opLast.reply.obj
ReturnedSubscriptions == opLast.out.result

\* The last adapter call returned subscriptions.
ReturnedSome ==
    /\ opLast.op \in SubscriptionOps
    /\ opLast.out.err = NoError
    /\ ~opLast.out.panic
    /\ ReturnedSubscriptions # <<>>

\* The last webhook call delivered a subscription event.
DeliveredSubscriptionEvent ==
    /\ last.payload.kind \in SubscriptionKinds
    /\ Delivered(last) # <<>>

\* C23 as stated: CurrentPeriodEnd of a returned Subscription, and of a
\* CallbackEvent for a subscription event, is the period-end timestamp of the
\* vendor's subscription.
C23_PeriodEndIsTheVendors ==
    /\ ReturnedSome =>
          /\ Len(ReturnedSubscriptions) = Len(RepliedSubscriptions)
          /\ \A i \in DOMAIN ReturnedSubscriptions :
                ReturnedSubscriptions[i].CurrentPeriodEnd = RepliedSubscriptions[i].CurrentPeriodEnd
    /\ DeliveredSubscriptionEvent =>
          Delivered(last)[1].CurrentPeriodEnd = last.payload.obj.CurrentPeriodEnd

\* C23, what the code does: CurrentPeriodEnd is the vendor's cancel-at
\* timestamp, in every adapter operation and in every webhook handler.
C23_PeriodEndIsCancelAt ==
    /\ ReturnedSome =>
          /\ Len(ReturnedSubscriptions) = Len(RepliedSubscriptions)
          /\ \A i \in DOMAIN ReturnedSubscriptions :
                ReturnedSubscriptions[i].CurrentPeriodEnd = RepliedSubscriptions[i].CancelAt
    /\ DeliveredSubscriptionEvent =>
          Delivered(last)[1].CurrentPeriodEnd = last.payload.obj.CancelAt

\* An adapter call has returned, and a webhook call has delivered, a
\* subscription whose CurrentPeriodEnd is 0 while the vendor's period ends at a
\* later time and no cancellation is scheduled.
C23_Witness ==
    /\ ReturnedSome
    /\ RepliedSubscriptions[1].CurrentPeriodEnd > 0
    /\ RepliedSubscriptions[1].CancelAt = 0
    /\ ReturnedSubscriptions[1].CurrentPeriodEnd = 0
    /\ DeliveredSubscriptionEvent
    /\ last.payload.obj.CurrentPeriodEnd > 0
    /\ Delivered(last)[1].CurrentPeriodEnd = 0

-----------------------------------------------------------------------------
(* Properties of the version updater *)

\* The commands of the run so far with the given name.
Ran(name) == {i \in DOMAIN upd.log : upd.log[i].cmd = name}

\* The majors updateExistingVersions looks at: the UpdateLimit highest existing.
MostRecent ==
    {upd.existing[i].Major : i \in {j \in DOMAIN upd.existing : j <= UpdateLimit}}

\* The latest tag of each major in the listing.
LatestTags == LatestVersions(NoVersions, upd.tags)

\* updateExistingVersions has just returned, with or without an error.
UpdatedExisting ==
    \/ upd.pc = "add"
    \/ upd.pc = "failed" /\ upd.err = "error updating existing versions"

StepErrors ==
    {"error updating existing versions", "error adding new major versions",
     "tests failed after updating versions"}

\* C26: a real run commits only after the tests have run and passed; when
\* updating the existing versions, adding new versions or go test fails,
\* UpdateStripeVersions returns the error, the failed command is the last one
\* made, and nothing is committed.
C26_CommitOnlyAfterTestsPass ==
    ~upd.dryRun =>
        /\ \A i \in Ran("git commit") \cup Ran("git add go.mod go.sum") \cup Ran("git add v*") :
              \E j \in Ran("go test") :
                  /\ j < i
                  /\ \A k \in 1 .. j : upd.log[k].ok
        /\ Cardinality(Ran("go test")) <= 1
        /\ (upd.pc = "failed" /\ upd.err \in StepErrors) =>
              /\ ~upd.log[Len(upd.log)].ok
              /\ \A k \in 1 .. Len(upd.log) - 1 : upd.log[k].ok
              /\ Ran("git commit") = {}
              /\ upd.err # "tests failed after updating versions" => Ran("go test") = {}
              /\ upd.err = "error updating existing versions" =>
                    Ran("mkdir") \cup Ran("copy") \cup Ran("rewrite") = {}
        /\ upd.pc = "commit" => Ran("go test") # {} /\ \A k \in DOMAIN upd.log : upd.log[k].ok

\* In a git repository, a real run that updated a version has stopped at the
\* failed tests without a commit.
C26_Witness ==
    /\ ~upd.dryRun
    /\ upd.isGit
    /\ upd.pc = "failed"
    /\ upd.err = "tests failed after updating versions"
    /\ \E i \in Ran("go get") : upd.log[i].ok
    /\ Ran("git commit") = {}

-----------------------------------------------------------------------------
(* Specifications *)

InitRegistry ==
    /\ registry = [v \in Versions |-> NilHandler]
    /\ regLog = <<>>
    /\ linked \in SUBSET PkgVersions
    /\ initDone = {}
    /\ phase = "init"
    /\ dynRegs = 0
    /\ got = <<Nil, NilHandler>>
    /\ gor = [g \in Goroutines |-> Idle]
    /\ initRun = {}
    /\ outsideInit = FALSE
    /\ fault = "none"

\* NewCallbackHandlerV74(): an empty channel; no request has come in.
InitHooks ==
    /\ events = <<>>
    /\ called = {}
    /\ last = NoCall
    /\ prod = [p \in Producers |-> Resting]
    /\ started = 0
    /\ order = <<>>
    /\ recvd = <<>>
    /\ ch = MadeChannel
    /\ evRet = 0
    /\ qret = NoReturn
    /\ opLast = NoOp
    /\ upd = NotRun

Init == InitRegistry /\ InitHooks

\* The registry as one goroutine uses it: every call is one step.
Next ==
    \/ \E p \in PkgVersions : PkgInit(p)
    \/ StartMain
    \/ \E h \in CallerHandlers : RegisterHandler(h)
    \/ RegisterNil
    \/ \E v \in Versions : CallGetHandler(v)

Spec == Init /\ [][Next]_vars

\* The registry as several goroutines use it.
NextConc ==
    \/ \E p \in PkgVersions : InitBegin(p)
    \/ \E p \in PkgVersions : InitEnd(p)
    \/ StartMainC
    \/ \E g \in Goroutines, h \in CallerHandlers : GoBeginRegister(g, h)
    \/ \E g \in Goroutines : GoEndRegister(g)
    \/ \E g \in Goroutines, v \in Versions : GoBeginGet(g, v)
    \/ \E g \in Goroutines : GoEndGet(g)

SpecConc == Init /\ [][NextConc]_vars

\* The webhook handlers, in a program that links every version package.
InitWebhook == InitRegistry /\ linked = PkgVersions /\ InitHooks

NextWebhook ==
    \/ \E c \in Callers \ called, payload \in Payloads : CallHandleWebhook(c, "v74", payload)
    \/ \E c \in Callers \ called, payload \in Payloads : CallHandleWebhook(c, "v79", payload)
    \/ \E c \in Callers \ called, payload \in Payloads : CallCallbackHandleWebhook(c, payload)
    \/ Receive

SpecWebhook == InitWebhook /\ [][NextWebhook]_vars

\* A fresh channel handler that serves requests on several goroutines, with a
\* consumer that receives when it likes.
NextQueue ==
    \/ \E p \in Producers, payload \in QueuePayloads : ProducerBegin(p, payload)
    \/ \E p \in Producers : ProducerPark(p)
    \/ \E p \in Producers : ProducerSend(p)
    \/ ConsumerReceive(MaxDrain)
    \/ CallEvents

SpecQueue == InitWebhook /\ [][NextQueue]_vars

\* The channel handler after EventsCap - 2 requests, served one after the other
\* with nothing received yet; from here requests come in concurrently.
ServedBefore == EventsCap - 2

EarlierEvents ==
    [n \in 1 .. ServedBefore |-> CallbackHandlerV74HandleWebhook(TaggedPayload(n)).sent[1]]

InitFifo ==
    /\ InitRegistry
    /\ linked = PkgVersions
    /\ events = EarlierEvents
    /\ order = TagsOf(EarlierEvents)
    /\ started = ServedBefore
    /\ recvd = <<>>
    /\ called = {}
    /\ last = NoCall
    /\ prod = [p \in Producers |-> Resting]
    /\ ch = MadeChannel
    /\ evRet = 0
    /\ qret = [NoReturn EXCEPT !.returned = TRUE, !.sent = TRUE]
    /\ opLast = NoOp
    /\ upd = NotRun

NextFifo ==
    \/ \E p \in Producers, payload \in TaggedPayloads(started + 1) : ProducerBegin(p, payload)
    \/ \E p \in Producers : ProducerPark(p)
    \/ \E p \in Producers : ProducerSend(p)
    \/ ConsumerReceive(MaxCalls)

SpecFifo == InitFifo /\ [][NextFifo]_vars

\* The same with a consumer that keeps receiving (for evt := range
\* handler.Events()) and goroutines that the scheduler keeps running: a send
\* that has room is made.
SpecProgress ==
    /\ InitFifo
    /\ [][NextFifo]_vars
    /\ WF_vars(ConsumerReceive(MaxCalls))
    /\ \A p \in Producers : WF_vars(ProducerSend(p))

NextAdapter ==
    \/ \E v \in AdapterVersions, params \in CustomerInputs, reply \in Replies(VendorCustomers) :
          CallCreateCustomer(v, params, reply)
    \/ \E v \in AdapterVersions, params \in CustomerInputs, reply \in Replies(VendorCustomers) :
          CallUpdateCustomer(v, "cus_1", params, reply)
    \/ \E v \in AdapterVersions, reply \in ListReplies(VendorPaymentMethods) :
          CallGetPaymentMethods(v, "cus_1", reply)
    \/ \E v \in AdapterVersions, reply \in Replies(VendorPaymentMethods) :
          CallAttachPaymentMethod(v, "cus_1", "pm_1", reply)
    \/ \E v \in AdapterVersions, reply \in Replies(VendorPaymentMethods) :
          CallDetachPaymentMethod(v, "pm_1", reply)
    \/ \E v \in AdapterVersions, params \in PaymentIntentInputs, reply \in Replies(VendorPaymentIntents) :
          CallCreatePaymentIntent(v, params, reply)
    \/ \E v \in AdapterVersions, reply \in Replies(VendorPaymentIntents) :
          CallRetrievePaymentIntent(v, "pi_1", reply)
    \/ \E v \in AdapterVersions, priceID \in PriceInputs, reply \in Replies(VendorSubscriptions) :
          CallCreateSubscription(v, "cus_1", priceID, reply)
    \/ \E v \in AdapterVersions, reply \in ListReplies(VendorSubscriptions) :
          CallListSubscriptions(v, "cus_1", reply)
    \/ \E v \in AdapterVersions, cancelAtPeriodEnd \in BOOLEAN, newPriceID \in PriceInputs,
             reply \in Replies(VendorSubscriptions) :
          CallUpdateSubscription(v, "sub_1", cancelAtPeriodEnd, newPriceID, reply)
    \/ \E v \in AdapterVersions, atPeriodEnd \in BOOLEAN, reply \in Replies(VendorSubscriptions) :
          CallCancelSubscription(v, "sub_1", atPeriodEnd, reply)

SpecAdapter == InitWebhook /\ [][NextAdapter]_vars

\* The deliveries about subscriptions.
SubscriptionPayloads == {payload \in Payloads : payload.kind \in SubscriptionKinds}

\* Calls of the adapter operations that return subscriptions, and then one
\* request about a subscription through any of the webhook handlers.
NextSubscription ==
    \/ \E v \in {"v74", "v79"}, payload \in SubscriptionPayloads : CallHandleWebhook("r1", v, payload)
    \/ \E payload \in SubscriptionPayloads : CallCallbackHandleWebhook("r1", payload)
    \/ /\ called = {}
       /\ \E v \in SubscriptionVersions, priceID \in PriceInputs, reply \in Replies(VendorSubscriptions) :
             CallCreateSubscription(v, "cus_1", priceID, reply)
    \/ /\ called = {}
       /\ \E v \in SubscriptionVersions, reply \in ListReplies(VendorSubscriptions) :
             CallListSubscriptions(v, "cus_1", reply)
    \/ /\ called = {}
       /\ \E v \in SubscriptionVersions, cancelAtPeriodEnd \in BOOLEAN, newPriceID \in PriceInputs,
                reply \in Replies(VendorSubscriptions) :
             CallUpdateSubscription(v, "sub_1", cancelAtPeriodEnd, newPriceID, reply)
    \/ /\ called = {}
       /\ \E v \in SubscriptionVersions, atPeriodEnd \in BOOLEAN, reply \in Replies(VendorSubscriptions) :
             CallCancelSubscription(v, "sub_1", atPeriodEnd, reply)

SpecSubscription == InitWebhook /\ [][NextSubscription]_vars

\* One run of the updater.
NextUpdater ==
    \/ /\ upd.pc = "idle"
       /\ \E dryRun \in BOOLEAN, isGit \in BOOLEAN, dirs \in DirSets, names \in SUBSET TagPool,
             gomod \in GoMods, failAt \in 0 .. MaxFailAt :
             UpdaterMain(dryRun, isGit, dirs, names, gomod, failAt)
    \/ \E reachable \in BOOLEAN : CheckSetup(reachable)
    \/ FindExistingVersions
    \/ \E reachable \in BOOLEAN : GetStripeGoTags(reachable)
    \/ UpdateExistingVersions
    \/ AddNewMajorVersions
    \/ RunTests
    \/ CommitChanges

SpecUpdater == InitWebhook /\ [][NextUpdater]_vars

-----------------------------------------------------------------------------
(* Progress of the channel handler under a consumer that keeps receiving *)

\* The n-th event published has been received.
Received(n) == Len(recvd) >= n /\ recvd[n] = order[n]

====
